---- MODULE Spec2Model ----
(***************************************************************************)
(* A model of the NewsScrapper backend: the retry wrapper and the sliding  *)
(* window rate limiter (utils/rate_limiter.py), the file cache             *)
(* (utils/cache_manager.py), the snapshot writer (utils/file_handler.py)   *)
(* with its readers, the background scraper thread of app.py, the polling  *)
(* loop of main.py with the fetch of every feed (feeds/), the advanced     *)
(* content filter (processors/advanced_content_filter.py), the basic       *)
(* content filter (processors/content_filter.py), the location matcher     *)
(* (processors/location_matcher.py, processors/geocoder.py), the alert     *)
(* formatter (processors/alert_formatter.py) and the choice of the limiter *)
(* of a feed (FeedRateLimiter).                                            *)
(*                                                                         *)
(* Every component has its own specification over the shared variables; a  *)
(* component that is not the subject of a specification rests in its       *)
(* initial state.  The variable "unit" names the component that runs.      *)
(*                                                                         *)
(* Time is an integer number of ticks.  In the retry component one tick is *)
(* a tenth of a second; in the limiter and the cache one tick is a second. *)
(***************************************************************************)
EXTENDS Integers, Sequences, FiniteSets, TLC

VARIABLES
    unit,                \* the component under analysis
    \* ---- retry_on_failure.wrapper (utils/rate_limiter.py)
    max_retries,         \* decorator argument
    base_delay,          \* decorator argument
    max_delay,           \* decorator argument
    exponential_backoff, \* decorator argument
    failures,            \* the wrapped func raises on its first "failures" calls
    retval,              \* the value func returns when it succeeds
    attempt,             \* loop variable of the wrapper
    calls,               \* number of invocations of func so far
    last_exception,      \* 0 = None, c = the exception raised by call number c
    sleeps,              \* the time.sleep calls made: <<[delay, jitter], ...>>
    trace,               \* order of events: "call" and "sleep"
    r_pc,                \* "loop", "returned", "raised"
    r_out,               \* the value the wrapper returned
    r_raised,            \* the exception the wrapper re-raised (0 = none)
    r_running,           \* self.running of the scraper whose call is wrapped
    \* ---- RateLimiter (utils/rate_limiter.py)
    l_max_requests,      \* self.max_requests
    l_time_window,       \* self.time_window
    requests,            \* self.requests: the times still remembered
    l_now,               \* time.time()
    recorded,            \* every time record_request appended, in order
    \* ---- CacheManager (utils/cache_manager.py)
    store,               \* the cache directory: key -> content of <key>.json
    c_now,               \* datetime.now()
    setlog,              \* per key, the arguments and time of the set() that wrote it
    c_op,                \* the last call on the cache and what it returned
    \* ---- save_alerts (utils/file_handler.py), its caller and its reader
    file,                \* the snapshot file: exists, items on disk, complete
    s_pc,                \* position of save_alerts: "idle", "mkdir", "open", "dump"
    s_alerts,            \* argument alerts (empty between calls)
    s_dir,               \* filepath has a directory part
    s_fault,             \* the step of this call that raises, if any
    s_written,           \* alerts json.dump has written to the file object
    s_prev,              \* the snapshot file when the call began
    s_result,            \* what save_alerts returned: "none", "ok", "fail"
    cy_result,           \* what run_single_cycle returned: "none", "ok", "fail"
    served,              \* the last response of get_alerts since the last save began
    \* ---- the background scraper of app.py
    scraper_running,     \* global scraper_running
    scraper_instance,    \* global scraper_instance: 0 = None, t = made by thread t
    inst_running,        \* NewsScraper.running of the instance made by thread t
    sig_handler,         \* the instance whose signal_handler is installed (0 = none)
    alive,               \* the process has not been ended by a signal
    t_pc,                \* position of each scraper thread
    h_pc,                \* position of each restart_scraper request
    \* ---- NewsScraper.run and what it calls (main.py, feeds/)
    running,             \* self.running, the cancellation flag
    cycle_count,         \* local cycle_count of run()
    pc,                  \* position of run(): "start", "while", "fetch", ...
    feed_i,              \* index into self.feeds of the loop of fetch_all_feeds
    f_pc,                \* position of get_entries / fetch_feed for that feed
    f_trace,             \* what this fetch_feed call did: "cache_get", "wait", "request"
    f_result,            \* what fetch_feed returned: "pending", "None", "cached", "feed"
    cached,              \* per feed: the cache directory holds a record for its url
    got,                 \* per feed: the entries parse_entries returned in this cycle
    outcome,             \* per feed: "pending", "ok", "none", "raised" in this cycle
    all_entries,         \* local all_entries of fetch_all_feeds
    stage,               \* how the stages of this cycle went (see RunCycle...)
    success,             \* what run_single_cycle returned: "none", "True", "False"
    clean_i,             \* index into self.feeds of the cleanup loop
    cleaned,             \* the feeds whose cleanup() has been called
    \* ---- AdvancedContentFilter (processors/advanced_content_filter.py)
    text,                \* argument content of the scoring functions
    score,               \* what calculate_relevance_score returned, in tenths (-1 = not called)
    category,            \* what get_security_category returned ("none" = not called)
    entries,             \* argument entries of filter_entries
    min_relevance,       \* argument min_relevance of filter_entries, in tenths
    filtered_entries,    \* what filter_entries returned
    fl_pc,               \* "idle", "called", "returned"
    \* ---- ContentFilter (processors/content_filter.py)
    b_content,           \* argument content of contains_security_keywords
    b_contains,          \* what contains_security_keywords returned ("none" = not called)
    b_entries,           \* argument entries of filter_entries
    b_filtered,          \* what filter_entries returned
    b_pc,                \* "idle", "contains", "tested", "filter", "filtered"
    \* ---- LocationMatcher and AdvancedGeocoder (processors/)
    locations,           \* self.locations: the gazetteer, in dictionary order
    lm_resolver,         \* the class whose get_coordinates is called
    lm_name,             \* argument location_name of get_coordinates
    lm_coords,           \* what get_coordinates did: pending, returned (lat, lon), raised
    lm_entry,            \* argument entry of extract_location_from_entry
    lm_location,         \* what extract_location_from_entry returned ("pending" = not called)
    lm_entries,          \* argument entries of process_entries
    processed_entries,   \* what process_entries returned
    lm_alerts,           \* what format_alerts made of them (main.py 115)
    lm_pc,               \* "idle", "coordinates", "looked_up", "extract", "extracted", ...
    \* ---- AlertFormatter (processors/alert_formatter.py)
    a_alerts,            \* argument alerts of deduplicate_alerts / sort_alerts_by_time
    a_result,            \* what the call returned
    a_pc,                \* "idle", "dedupe", "deduplicated", "sort", "sorted"
    \* ---- FeedRateLimiter of every feed (utils/rate_limiter.py, feeds/)
    th_requests,         \* per feed and limiter of its FeedRateLimiter: requests recorded
    th_last              \* the last request: its feed, the limiter it went through, whether it slept

retryVars == <<max_retries, base_delay, max_delay, exponential_backoff, failures,
               retval, attempt, calls, last_exception, sleeps, trace, r_pc, r_out,
               r_raised, r_running>>

limiterVars == <<l_max_requests, l_time_window, requests, l_now, recorded>>

cacheVars == <<store, c_now, setlog, c_op>>

persistVars == <<file, s_pc, s_alerts, s_dir, s_fault, s_written, s_prev, s_result,
                 cy_result, served>>

scraperVars == <<scraper_running, scraper_instance, inst_running, sig_handler, alive,
                 t_pc, h_pc>>

runVars == <<running, cycle_count, pc, feed_i, f_pc, f_trace, f_result, cached, got,
             outcome, all_entries, stage, success, clean_i, cleaned>>

filterVars == <<text, score, category, entries, min_relevance, filtered_entries, fl_pc>>

basicVars == <<b_content, b_contains, b_entries, b_filtered, b_pc>>

locationVars == <<locations, lm_resolver, lm_name, lm_coords, lm_entry, lm_location, lm_entries, processed_entries, lm_alerts, lm_pc>>

formatterVars == <<a_alerts, a_result, a_pc>>

throttleVars == <<th_requests, th_last>>

vars == <<unit, retryVars, limiterVars, cacheVars, persistVars, scraperVars, runVars,
          filterVars,
          basicVars,
          locationVars,
          formatterVars,
          throttleVars>>

notRetry == <<limiterVars, cacheVars, persistVars, scraperVars, runVars,
    filterVars,
    basicVars,
    locationVars,
    formatterVars,
    throttleVars>>
notLimiter == <<retryVars, cacheVars, persistVars, scraperVars, runVars,
    filterVars,
    basicVars,
    locationVars,
    formatterVars,
    throttleVars>>
notCache == <<retryVars, limiterVars, persistVars, scraperVars, runVars,
    filterVars,
    basicVars,
    locationVars,
    formatterVars,
    throttleVars>>
notPersist == <<retryVars, limiterVars, cacheVars, scraperVars, runVars,
    filterVars,
    basicVars,
    locationVars,
    formatterVars,
    throttleVars>>
notScraper == <<retryVars, limiterVars, cacheVars, persistVars, runVars,
    filterVars,
    basicVars,
    locationVars,
    formatterVars,
    throttleVars>>
notRun == <<retryVars, limiterVars, cacheVars, persistVars, scraperVars, filterVars,
    basicVars,
    locationVars,
    formatterVars,
    throttleVars>>
notFilter == <<retryVars, limiterVars, cacheVars, persistVars, scraperVars, runVars,
    basicVars,
    locationVars,
    formatterVars,
    throttleVars>>
notBasic == <<retryVars, limiterVars, cacheVars, persistVars, scraperVars,
    runVars, filterVars,
    locationVars,
    formatterVars,
    throttleVars>>
notLocation == <<retryVars, limiterVars, cacheVars, persistVars, scraperVars,
    runVars, filterVars, basicVars,
    formatterVars,
    throttleVars>>
notFormatter == <<retryVars, limiterVars, cacheVars, persistVars, scraperVars,
    runVars, filterVars, basicVars, locationVars,
    throttleVars>>
notThrottle == <<retryVars, limiterVars, cacheVars, persistVars, scraperVars,
    runVars, filterVars, basicVars, locationVars, formatterVars>>

Min(a, b) == IF a <= b THEN a ELSE b

RECURSIVE Pow2(_)
Pow2(n) == IF n <= 0 THEN 1 ELSE 2 * Pow2(n - 1)

(***************************************************************************)
(* The resting state of each component                                     *)
(***************************************************************************)
NoValue == "None"

RetryIdle ==
    /\ max_retries = 0 /\ base_delay = 0 /\ max_delay = 0
    /\ exponential_backoff = TRUE /\ failures = 0 /\ retval = NoValue
    /\ attempt = 0 /\ calls = 0 /\ last_exception = 0
    /\ sleeps = <<>> /\ trace = <<>> /\ r_pc = "idle" /\ r_out = NoValue
    /\ r_raised = 0 /\ r_running = FALSE

LimiterIdle ==
    /\ l_max_requests = 0 /\ l_time_window = 0 /\ requests = <<>>
    /\ l_now = 0 /\ recorded = <<>>

Keys == {"u1", "u2"}

\* the content of one cache file.  exists: the file is there; parsable:
\* json.load succeeds; ts_tag, ttl_tag: "ok", "missing" or "invalid" for the
\* 'timestamp' and 'ttl' fields; has_data: the 'data' field is there
File(parsable, ts_tag, ts, ttl_tag, ttl, has_data, data) ==
    [exists |-> TRUE, parsable |-> parsable, ts_tag |-> ts_tag, ts |-> ts,
     ttl_tag |-> ttl_tag, ttl |-> ttl, has_data |-> has_data, data |-> data]

Absent ==
    [exists |-> FALSE, parsable |-> FALSE, ts_tag |-> "missing", ts |-> 0,
     ttl_tag |-> "missing", ttl |-> 0, has_data |-> FALSE, data |-> NoValue]

NoSet == [valid |-> FALSE, t |-> 0, ttl_none |-> TRUE, ttl |-> 0, data |-> NoValue]

NoOp ==
    [op |-> "none", url |-> "none", result |-> NoValue, at |-> 0, count |-> 0,
     before |-> [k \in Keys |-> Absent]]

CacheIdle ==
    /\ store = [k \in Keys |-> Absent] /\ c_now = 0
    /\ setlog = [k \in Keys |-> NoSet] /\ c_op = NoOp

NoFile == [exists |-> FALSE, items |-> <<>>, complete |-> FALSE]

NoFault == [at |-> "none", index |-> 0]

NotServed == [valid |-> FALSE, items |-> <<>>, during |-> FALSE,
              prev |-> NoFile, new |-> <<>>]

PersistIdle ==
    /\ file = NoFile /\ s_pc = "idle" /\ s_alerts = <<>> /\ s_dir = FALSE
    /\ s_fault = NoFault /\ s_written = 0 /\ s_prev = NoFile
    /\ s_result = "none" /\ cy_result = "none" /\ served = NotServed

MaxRestarts == 2
Handlers == 1 .. MaxRestarts
Threads == 1 .. (MaxRestarts + 1)

ScraperIdle ==
    /\ scraper_running = FALSE /\ scraper_instance = 0
    /\ inst_running = [t \in Threads |-> FALSE]
    /\ sig_handler = 0 /\ alive = TRUE
    /\ t_pc = [t \in Threads |-> "unborn"]
    /\ h_pc = [h \in Handlers |-> "idle"]

\* main.py 34-39: self.feeds, by the name each feed passes to BaseFeed.__init__
Feeds == <<"BBC News", "Met Police", "GOV.UK", "Evening Standard">>
FeedIds == 1 .. Len(Feeds)

RunIdle ==
    /\ running = FALSE /\ cycle_count = 0 /\ pc = "idle" /\ feed_i = 0
    /\ f_pc = "idle" /\ f_trace = <<>> /\ f_result = "pending"
    /\ cached = [k \in FeedIds |-> FALSE]
    /\ got = [k \in FeedIds |-> <<>>]
    /\ outcome = [k \in FeedIds |-> "pending"]
    /\ all_entries = <<>> /\ stage = "none" /\ success = "none"
    /\ clean_i = 0 /\ cleaned = {}

\* a text: its words in order, and its length in characters
NoText == [words |-> <<>>, len |-> 0]

FilterIdle ==
    /\ text = NoText /\ score = -1 /\ category = "none"
    /\ entries = <<>> /\ min_relevance = 0 /\ filtered_entries = <<>>
    /\ fl_pc = "idle"

BasicIdle ==
    /\ b_content = <<>> /\ b_contains = "none"
    /\ b_entries = <<>> /\ b_filtered = <<>> /\ b_pc = "idle"

\* get_coordinates has not been called
NoCoordinates == [kind |-> "pending", lat |-> "None", lon |-> "None"]

\* an entry without text
NoEntry == [title |-> <<>>, description |-> <<>>, content |-> <<>>, source |-> ""]

LocationIdle ==
    /\ locations = <<>> /\ lm_resolver = "none" /\ lm_name = ""
    /\ lm_coords = NoCoordinates /\ lm_entry = NoEntry /\ lm_location = "pending"
    /\ lm_entries = <<>> /\ processed_entries = <<>> /\ lm_alerts = <<>>
    /\ lm_pc = "idle"

FormatterIdle ==
    /\ a_alerts = <<>> /\ a_result = <<>> /\ a_pc = "idle"

\* rate_limiter.py 121-126: the keys of FeedRateLimiter.limiters
LimiterKeys == {"bbc", "met_police", "govuk", "default"}

\* no request has been made
NoRequest == [feed |-> "", limiter |-> "none", slept |-> FALSE]

ThrottleIdle ==
    /\ th_requests = [k \in FeedIds |-> [l \in LimiterKeys |-> 0]]
    /\ th_last = NoRequest

(***************************************************************************)
(* retry_on_failure                                                        *)
(***************************************************************************)
MaxRetries == 3
BaseDelays == {10, 20}
MaxDelays == {10, 30}
Values == {"v1", "v2"}

\* mutant: the cap at max_delay is lost
DelayUncapped(a) ==
    IF exponential_backoff THEN base_delay * Pow2(a) ELSE base_delay

\* rate_limiter.py 83-86: the un-jittered delay after failed attempt a
Delay(a) ==
    IF exponential_backoff
    THEN Min(base_delay * Pow2(a), max_delay)
    ELSE base_delay

\* rate_limiter.py 89: random.uniform(0, 0.1 * delay), on the tick grid
JitterRange(d) == 0 .. (d \div 10)

\* mutant: gives up one attempt early
IsLastAttemptEarly(a) == a >= max_retries - 1

\* rate_limiter.py 78: attempt == max_retries
IsLastAttempt(a) == a = max_retries

\* rate_limiter.py 73: the wrapped func; its call number c raises
FuncRaises(c) == c <= failures

\* rate_limiter.py 55-69: the decorator's arguments and the wrapper's entry
RetryInit ==
    /\ unit = "retry"
    /\ LimiterIdle /\ CacheIdle /\ PersistIdle /\ ScraperIdle /\ RunIdle /\ FilterIdle
    /\ ThrottleIdle
    /\ FormatterIdle
    /\ LocationIdle
    /\ BasicIdle
    /\ max_retries \in 0 .. MaxRetries
    /\ base_delay \in BaseDelays
    /\ max_delay \in MaxDelays
    /\ exponential_backoff \in BOOLEAN
    /\ failures \in 0 .. (MaxRetries + 2)
    /\ r_running = TRUE
    /\ retval \in Values
    /\ attempt = 0 /\ calls = 0 /\ last_exception = 0
    /\ sleeps = <<>> /\ trace = <<>> /\ r_pc = "loop" /\ r_out = NoValue
    /\ r_raised = 0

\* mutant: the value of func is dropped, the wrapper returns None
RetryCallReturnsNothing ==
    /\ unit = "retry" /\ r_pc = "loop" /\ attempt <= max_retries
    /\ ~FuncRaises(calls + 1)
    /\ calls' = calls + 1
    /\ trace' = Append(trace, "call")
    /\ r_pc' = "returned"
    /\ r_out' = NoValue
    /\ UNCHANGED <<unit, notRetry, r_running, max_retries, base_delay, max_delay, exponential_backoff,
                   failures, retval, attempt, last_exception, sleeps, r_raised>>

\* rate_limiter.py 71-73: func returns, the wrapper returns its value
RetryCallReturns ==
    /\ unit = "retry" /\ r_pc = "loop" /\ attempt <= max_retries
    /\ ~FuncRaises(calls + 1)
    /\ calls' = calls + 1
    /\ trace' = Append(trace, "call")
    /\ r_pc' = "returned"
    /\ r_out' = retval
    /\ UNCHANGED <<unit, notRetry, r_running, max_retries, base_delay, max_delay, exponential_backoff,
                   failures, retval, attempt, last_exception, sleeps, r_raised>>

\* rate_limiter.py 75-80: func raises on the last attempt, the wrapper re-raises
RetryCallGivesUp ==
    /\ unit = "retry" /\ r_pc = "loop" /\ attempt <= max_retries
    /\ FuncRaises(calls + 1)
    /\ IsLastAttempt(attempt)
    /\ calls' = calls + 1
    /\ trace' = Append(trace, "call")
    /\ last_exception' = calls + 1
    /\ r_pc' = "raised"
    /\ r_raised' = last_exception'
    /\ UNCHANGED <<unit, notRetry, r_running, max_retries, base_delay, max_delay, exponential_backoff,
                   failures, retval, attempt, sleeps, r_out>>

\* rate_limiter.py 75-93: func raises, the wrapper sleeps delay + jitter and loops
RetryCallBacksOff ==
    /\ unit = "retry" /\ r_pc = "loop" /\ attempt <= max_retries
    /\ FuncRaises(calls + 1)
    /\ ~IsLastAttempt(attempt)
    /\ calls' = calls + 1
    /\ last_exception' = calls + 1
    /\ \E jitter \in JitterRange(Delay(attempt)) :
          sleeps' = Append(sleeps, [delay |-> Delay(attempt), jitter |-> jitter])
    /\ trace' = trace \o <<"call", "sleep">>
    /\ attempt' = attempt + 1
    /\ UNCHANGED <<unit, notRetry, r_running, max_retries, base_delay, max_delay, exponential_backoff,
                   failures, retval, r_pc, r_out, r_raised>>

\* The loop of rate_limiter.py 71 always ends at 73 or 80 when max_retries >= 0:
\* line 95 is not reached and has no action.

(***************************************************************************)
(* Claims about retry_on_failure                                           *)
(***************************************************************************)
RetryDone == unit = "retry" /\ r_pc \in {"returned", "raised"}

\* C8: an operation that fails on every attempt is invoked exactly
\* max_retries + 1 times with exactly max_retries sleeps, none after the last
\* attempt, and the wrapper re-raises the exception of the last attempt.
C8_ExhaustedRetries ==
    (unit = "retry" /\ failures > max_retries) =>
        /\ calls <= max_retries + 1
        /\ Len(sleeps) <= max_retries
        /\ r_pc # "returned"
        /\ RetryDone =>
              /\ r_pc = "raised"
              /\ calls = max_retries + 1
              /\ Len(sleeps) = max_retries
              /\ Len(trace) = 2 * max_retries + 1
              /\ trace[Len(trace)] = "call"
              /\ r_raised = max_retries + 1
              /\ r_out = NoValue

C8_Witness ==
    /\ unit = "retry" /\ failures > max_retries /\ max_retries = 2
    /\ r_pc = "raised" /\ Len(sleeps) = 2

\* C9: an operation that fails k <= max_retries times and then succeeds is
\* invoked exactly k + 1 times, the wrapper returns its value, and exactly k
\* sleeps occur, one between each pair of consecutive attempts.
C9_EventualSuccess ==
    (RetryDone /\ failures <= max_retries) =>
        /\ r_pc = "returned"
        /\ r_out = retval
        /\ calls = failures + 1
        /\ Len(sleeps) = failures
        /\ Len(trace) = 2 * failures + 1
        /\ \A i \in 1 .. Len(trace) :
              trace[i] = IF i % 2 = 1 THEN "call" ELSE "sleep"

C9_Witness ==
    /\ RetryDone /\ max_retries = 3 /\ failures = 2
    /\ r_pc = "returned" /\ r_out = retval /\ Len(sleeps) = 2 /\ calls = 3

RetrySignal ==
    /\ unit = "retry" /\ r_pc = "loop" /\ r_running
    /\ r_running' = FALSE
    /\ UNCHANGED <<unit, notRetry, max_retries, base_delay, max_delay, exponential_backoff,
                   failures, retval, attempt, calls, last_exception, sleeps, trace, r_pc,
                   r_out, r_raised>>

\* C16: when the shutdown flag is set and an attempt has failed, the retry
\* wrapper makes no further attempt: the wrapped function is not called again.
C16_NoAttemptAfterShutdown ==
    [][(unit = "retry" /\ ~r_running /\ attempt >= 1) => calls' = calls]_vars

RetryNext ==
    \/ RetryCallReturns
    \/ RetryCallGivesUp
    \/ RetryCallBacksOff
    \/ RetrySignal

SpecRetry == RetryInit /\ [][RetryNext]_vars

(***************************************************************************)
(* RateLimiter                                                             *)
(***************************************************************************)
MaxClock == 7
MaxRequests == 4
MaxOversleep == 1
\* <<max_requests, time_window>>; the window is a multiple of max_requests so
\* that time_window / max_requests is a whole number of ticks
LimiterConfigs == {<<1, 4>>, <<2, 4>>, <<2, 6>>, <<3, 6>>}

\* rate_limiter.py 36-37: the requests still inside the window at time t
Pruned(t) ==
    SelectSeq(requests, LAMBDA req_time : t - req_time < l_time_window)

\* rate_limiter.py 48: wait_time = time_window / max_requests
WaitTime == l_time_window \div l_max_requests

\* rate_limiter.py 19-29: __init__
LimiterInit ==
    /\ unit = "limiter"
    /\ RetryIdle /\ CacheIdle /\ PersistIdle /\ ScraperIdle /\ RunIdle /\ FilterIdle
    /\ ThrottleIdle
    /\ FormatterIdle
    /\ LocationIdle
    /\ BasicIdle
    /\ \E cfg \in LimiterConfigs :
          l_max_requests = cfg[1] /\ l_time_window = cfg[2]
    /\ requests = <<>> /\ l_now = 0 /\ recorded = <<>>

\* time passes between two calls
LimiterTick ==
    /\ unit = "limiter"
    /\ l_now < MaxClock
    /\ l_now' = l_now + 1
    /\ UNCHANGED <<unit, notLimiter, l_max_requests, l_time_window, requests, recorded>>

\* rate_limiter.py 45-52 with can_request (31-39) true: the request is
\* recorded at once
WaitIfNeededFree ==
    /\ unit = "limiter"
    /\ Len(recorded) < MaxRequests
    /\ Len(Pruned(l_now)) < l_max_requests
    /\ requests' = Append(Pruned(l_now), l_now)
    /\ recorded' = Append(recorded, l_now)
    /\ UNCHANGED <<unit, notLimiter, l_max_requests, l_time_window, l_now>>

\* rate_limiter.py 45-52 with can_request (31-39) false: one sleep of
\* wait_time (time.sleep may return late), then the request is recorded
WaitIfNeededSleeps ==
    /\ unit = "limiter"
    /\ Len(recorded) < MaxRequests
    /\ Len(Pruned(l_now)) >= l_max_requests
    /\ \E late \in 0 .. MaxOversleep :
          /\ l_now + WaitTime + late <= MaxClock
          /\ l_now' = l_now + WaitTime + late
    /\ requests' = Append(Pruned(l_now), l_now')
    /\ recorded' = Append(recorded, l_now')
    /\ UNCHANGED <<unit, notLimiter, l_max_requests, l_time_window>>

LimiterNext ==
    \/ LimiterTick
    \/ WaitIfNeededFree
    \/ WaitIfNeededSleeps

SpecLimiter == LimiterInit /\ [][LimiterNext]_vars

\* the number of recorded requests at times t .. t + time_window - 1
InWindow(t) ==
    Cardinality({i \in 1 .. Len(recorded) :
                    t <= recorded[i] /\ recorded[i] < t + l_time_window})

\* C1: after any sequence of wait_if_needed calls, no interval of time_window
\* seconds contains more than max_requests recorded requests.
C1_WindowNeverExceeded ==
    unit = "limiter" => \A t \in 0 .. MaxClock : InWindow(t) <= l_max_requests

(***************************************************************************)
(* CacheManager                                                            *)
(***************************************************************************)
DefaultTtl == 300
MaxCacheClock == 3
MaxSets == 2
CacheData == {"d1", "d2"}
\* the ttl argument of set(): None, or a number of seconds
TtlArgs == {[none |-> TRUE, v |-> 0], [none |-> FALSE, v |-> 0],
            [none |-> FALSE, v |-> 1], [none |-> FALSE, v |-> 2]}

\* what the cache directory may hold when the program starts: records written
\* by an earlier run (fresh, stale, stale under the default ttl) and damaged files
InitFiles ==
    {File(TRUE, "ok", ts, "ok", 1, TRUE, "d1") : ts \in {0, -2}}
    \cup {File(TRUE, "ok", ts, "missing", 0, TRUE, "d1") : ts \in {0, -DefaultTtl - 1}}
    \cup {File(FALSE, "missing", 0, "missing", 0, FALSE, NoValue),
          File(TRUE, "missing", 0, "ok", 1, TRUE, "d1"),
          File(TRUE, "invalid", 0, "ok", 1, TRUE, "d1"),
          File(TRUE, "ok", 0, "invalid", 0, TRUE, "d1"),
          File(TRUE, "ok", 0, "ok", 1, FALSE, NoValue),
          File(TRUE, "ok", -2, "ok", 1, FALSE, NoValue)}

\* cache_manager.py 66-73 and 162-168: json.load, fromisoformat(timestamp) or
\* timedelta(seconds=ttl) raises
LoadFails(r) == ~r.parsable \/ r.ts_tag # "ok" \/ r.ttl_tag = "invalid"

\* cache_manager.py 71, 166: cached_data.get('ttl', self.default_ttl)
TtlOf(r) == IF r.ttl_tag = "missing" THEN DefaultTtl ELSE r.ttl

\* cache_manager.py 73, 168: datetime.now() - cached_time > timedelta(seconds=ttl)
Expired(r, t) == t - r.ts > TtlOf(r)

\* cache_manager.py 108: ttl or self.default_ttl
StoredTtl(arg) == IF arg.none \/ arg.v = 0 THEN DefaultTtl ELSE arg.v

\* cache_manager.py 20-32: __init__ on a cache directory left by earlier runs
CacheInit ==
    /\ unit = "cache"
    /\ RetryIdle /\ LimiterIdle /\ PersistIdle /\ ScraperIdle /\ RunIdle /\ FilterIdle
    /\ ThrottleIdle
    /\ FormatterIdle
    /\ LocationIdle
    /\ BasicIdle
    /\ store \in [Keys -> InitFiles \cup {Absent}]
    /\ c_now = 0
    /\ setlog = [k \in Keys |-> NoSet]
    /\ c_op = NoOp

\* time passes between two calls
CacheTick ==
    /\ unit = "cache"
    /\ c_now < MaxCacheClock
    /\ c_now' = c_now + 1
    /\ UNCHANGED <<unit, notCache, store, setlog, c_op>>

\* cache_manager.py 48-83: what get returns for the file r at time t
GetResult(r, t) ==
    IF ~r.exists THEN NoValue
    ELSE IF LoadFails(r) THEN NoValue
    ELSE IF Expired(r, t) THEN NoValue
    ELSE IF ~r.has_data THEN NoValue
    ELSE r.data

\* cache_manager.py 73-76: get deletes the file only on the expiry branch
GetDeletes(r, t) == r.exists /\ ~LoadFails(r) /\ Expired(r, t)

\* cache_manager.py 48-83: get
CacheGet(url) ==
    /\ unit = "cache"
    /\ store' = IF GetDeletes(store[url], c_now)
                THEN [store EXCEPT ![url] = Absent] ELSE store
    /\ setlog' = IF GetDeletes(store[url], c_now)
                 THEN [setlog EXCEPT ![url] = NoSet] ELSE setlog
    /\ c_op' = [op |-> "get", url |-> url, result |-> GetResult(store[url], c_now),
                at |-> c_now, count |-> 0, before |-> store]
    /\ UNCHANGED <<unit, notCache, c_now>>

\* cache_manager.py 85-119: set
CacheSet(url, data, ttl) ==
    /\ unit = "cache"
    /\ Cardinality({k \in Keys : setlog[k].valid}) < MaxSets \/ setlog[url].valid
    /\ store' = [store EXCEPT ![url] =
                    File(TRUE, "ok", c_now, "ok", StoredTtl(ttl), TRUE, data)]
    /\ setlog' = [setlog EXCEPT ![url] =
                    [valid |-> TRUE, t |-> c_now, ttl_none |-> ttl.none,
                     ttl |-> ttl.v, data |-> data]]
    /\ c_op' = [op |-> "set", url |-> url, result |-> NoValue, at |-> c_now,
                count |-> 0, before |-> store]
    /\ UNCHANGED <<unit, notCache, c_now>>

\* cache_manager.py 121-143: delete
CacheDelete(url) ==
    /\ unit = "cache"
    /\ store[url].exists
    /\ store' = [store EXCEPT ![url] = Absent]
    /\ setlog' = [setlog EXCEPT ![url] = NoSet]
    /\ c_op' = [op |-> "delete", url |-> url, result |-> NoValue, at |-> c_now,
                count |-> 0, before |-> store]
    /\ UNCHANGED <<unit, notCache, c_now>>

\* cache_manager.py 161-179: clear_expired removes the file r at time t
ClearRemoves(r, t) == r.exists /\ (LoadFails(r) \/ Expired(r, t))

\* cache_manager.py 145-187: clear_expired
CacheClearExpired ==
    /\ unit = "cache"
    /\ store' = [k \in Keys |->
                    IF ClearRemoves(store[k], c_now) THEN Absent ELSE store[k]]
    /\ setlog' = [k \in Keys |->
                    IF ClearRemoves(store[k], c_now) THEN NoSet ELSE setlog[k]]
    /\ c_op' = [op |-> "clear", url |-> "none", result |-> NoValue, at |-> c_now,
                count |-> Cardinality({k \in Keys : ClearRemoves(store[k], c_now)}),
                before |-> store]
    /\ UNCHANGED <<unit, notCache, c_now>>

CacheNext ==
    \/ CacheTick
    \/ \E url \in Keys : CacheGet(url)
    \/ \E url \in Keys, data \in CacheData, ttl \in TtlArgs : CacheSet(url, data, ttl)
    \/ \E url \in Keys : CacheDelete(url)
    \/ CacheClearExpired

SpecCache == CacheInit /\ [][CacheNext]_vars

(***************************************************************************)
(* Claims about the cache                                                  *)
(***************************************************************************)
\* a damaged record: unparsable file, missing or invalid timestamp, invalid
\* ttl, or missing data field
Corrupt(r) == r.exists /\ (LoadFails(r) \/ ~r.has_data)

\* a record whose age at time t is beyond its ttl
Stale(r, t) == r.exists /\ ~LoadFails(r) /\ t - r.ts > TtlOf(r)

\* C5: for a record stored by set(url, data, ttl) at time t with ttl >= 0, a
\* get(url) at a later time t' returns data if and only if t' - t < ttl;
\* otherwise it returns absent and the record is gone from the store.
C5_GetWithinTtl ==
    (unit = "cache" /\ c_op.op = "get" /\ setlog[c_op.url].valid
        /\ ~setlog[c_op.url].ttl_none) =>
        LET s == setlog[c_op.url]
        IN  IF c_op.at - s.t < s.ttl
            THEN c_op.result = s.data
            ELSE c_op.result = NoValue /\ ~store[c_op.url].exists

\* C6: get on the key of a corrupt record returns absent and the record is
\* removed from the store by that call.
C6_CorruptPurgedByGet ==
    (unit = "cache" /\ c_op.op = "get" /\ Corrupt(c_op.before[c_op.url])) =>
        c_op.result = NoValue /\ ~store[c_op.url].exists

\* C7: clear_expired removes every stale or corrupt record, leaves every
\* fresh valid record unchanged and returns the number of records it removed.
C7_ClearExpiredExact ==
    (unit = "cache" /\ c_op.op = "clear") =>
        /\ \A k \in Keys :
              IF Stale(c_op.before[k], c_op.at) \/ Corrupt(c_op.before[k])
              THEN ~store[k].exists
              ELSE store[k] = c_op.before[k]
        /\ c_op.count = Cardinality({k \in Keys :
                            c_op.before[k].exists /\ ~store[k].exists})

(***************************************************************************)
(* save_alerts, run_single_cycle's persist step, get_alerts                *)
(***************************************************************************)
MaxAlerts == 2
AlertIds == {"a1", "a2"}
AlertLists == UNION {[1 .. n -> AlertIds] : n \in 1 .. MaxAlerts}

\* a complete snapshot file holding the JSON array of these alerts
Snapshot(alerts) == [exists |-> TRUE, items |-> alerts, complete |-> TRUE]

\* file_handler.py 31: open(filepath, 'w') leaves an empty file
Truncated == [exists |-> TRUE, items |-> <<>>, complete |-> FALSE]

\* the file while json.dump is under way: the first n alerts, array not closed
Partial(alerts, n) ==
    [exists |-> TRUE, items |-> SubSeq(alerts, 1, n), complete |-> FALSE]

\* the steps of save_alerts that can raise for the given arguments
Faults(alerts, dir) ==
    {NoFault, [at |-> "open", index |-> 0]}
    \cup (IF dir THEN {[at |-> "mkdir", index |-> 0]} ELSE {})
    \cup {[at |-> "dump", index |-> i] : i \in 1 .. Len(alerts)}

\* the working directory when the program starts: no snapshot yet, or the
\* snapshot of an earlier run
PersistInit ==
    /\ unit = "persist"
    /\ RetryIdle /\ LimiterIdle /\ CacheIdle /\ ScraperIdle /\ RunIdle /\ FilterIdle
    /\ ThrottleIdle
    /\ FormatterIdle
    /\ LocationIdle
    /\ BasicIdle
    /\ file \in {NoFile} \cup {Snapshot(a) : a \in AlertLists}
    /\ s_pc = "idle" /\ s_alerts = <<>> /\ s_dir = FALSE
    /\ s_fault = NoFault /\ s_written = 0 /\ s_prev = file
    /\ s_result = "none" /\ cy_result = "none" /\ served = NotServed

\* main.py 136-147: a cycle with no entries or no alerts returns True early
CycleNoAlerts ==
    /\ unit = "persist" /\ s_pc = "idle"
    /\ cy_result' = "ok"
    /\ s_result' = "none"
    /\ UNCHANGED <<unit, notPersist, file, s_pc, s_alerts, s_dir, s_fault, s_written,
                   s_prev, served>>

\* main.py 143-150: a cycle with alerts calls save_alerts(alerts, OUTPUT_FILE);
\* file_handler.py 13-26: entry of save_alerts
CycleSave(alerts, dir, fault) ==
    /\ unit = "persist" /\ s_pc = "idle"
    /\ alerts # <<>>
    /\ fault \in Faults(alerts, dir)
    /\ s_pc' = "mkdir"
    /\ s_alerts' = alerts /\ s_dir' = dir /\ s_fault' = fault
    /\ s_written' = 0
    /\ s_prev' = file
    /\ s_result' = "none" /\ cy_result' = "none"
    /\ served' = NotServed
    /\ UNCHANGED <<unit, notPersist, file>>

\* file_handler.py 37-39 and main.py 155-157: the exception is caught,
\* save_alerts returns False and the cycle returns False
SaveFails ==
    /\ s_pc' = "idle"
    /\ s_result' = "fail"
    /\ cy_result' = "fail"
    /\ s_alerts' = <<>> /\ s_dir' = FALSE /\ s_fault' = NoFault /\ s_written' = 0

\* file_handler.py 26-28: os.makedirs when the path has a directory part
SaveMkdir ==
    /\ unit = "persist" /\ s_pc = "mkdir"
    /\ IF s_dir /\ s_fault.at = "mkdir"
       THEN SaveFails
       ELSE /\ s_pc' = "open"
            /\ UNCHANGED <<s_result, cy_result, s_alerts, s_dir, s_fault, s_written>>
    /\ UNCHANGED <<unit, notPersist, file, s_prev, served>>

\* file_handler.py 31: open(filepath, 'w') truncates the file in place
SaveOpen ==
    /\ unit = "persist" /\ s_pc = "open"
    /\ IF s_fault.at = "open"
       THEN SaveFails /\ UNCHANGED file
       ELSE /\ file' = Truncated
            /\ s_pc' = "dump"
            /\ UNCHANGED <<s_result, cy_result, s_alerts, s_dir, s_fault, s_written>>
    /\ UNCHANGED <<unit, notPersist, s_prev, served>>

\* file_handler.py 32: json.dump writes the next alert to the file object; when
\* it raises, leaving the with block closes the file, which flushes what was
\* written before
SaveDump ==
    /\ unit = "persist" /\ s_pc = "dump"
    /\ s_written < Len(s_alerts)
    /\ IF s_fault.at = "dump" /\ s_fault.index = s_written + 1
       THEN /\ SaveFails
            /\ file' = Partial(s_alerts, s_written)
       ELSE /\ s_written' = s_written + 1
            /\ UNCHANGED <<file, s_pc, s_result, cy_result, s_alerts, s_dir, s_fault>>
    /\ UNCHANGED <<unit, notPersist, s_prev, served>>

\* file_handler.py 32: the file object's buffer reaches the disk while
\* json.dump is still writing
SaveFlush ==
    /\ unit = "persist" /\ s_pc = "dump"
    /\ \E n \in (Len(file.items) + 1) .. s_written :
          file' = Partial(s_alerts, n)
    /\ UNCHANGED <<unit, notPersist, s_pc, s_alerts, s_dir, s_fault, s_written,
                   s_prev, s_result, cy_result, served>>

\* file_handler.py 31-35 and main.py 152-154: json.dump is done, the with block
\* closes the file, save_alerts returns True and the cycle returns True
SaveClose ==
    /\ unit = "persist" /\ s_pc = "dump"
    /\ s_written = Len(s_alerts)
    /\ file' = Snapshot(s_alerts)
    /\ s_pc' = "idle"
    /\ s_result' = "ok"
    /\ cy_result' = "ok"
    /\ s_alerts' = <<>> /\ s_dir' = FALSE /\ s_fault' = NoFault /\ s_written' = 0
    /\ UNCHANGED <<unit, notPersist, s_prev, served>>

\* app.py 112-123: get_alerts answers with the parsed file, or with [] when
\* the file is missing or json.load raises
GetAlerts ==
    /\ unit = "persist"
    /\ served' = [valid |-> TRUE,
                  items |-> IF file.exists /\ file.complete THEN file.items ELSE <<>>,
                  during |-> s_pc # "idle",
                  prev |-> s_prev,
                  new |-> s_alerts]
    /\ UNCHANGED <<unit, notPersist, file, s_pc, s_alerts, s_dir, s_fault, s_written,
                   s_prev, s_result, cy_result>>

PersistNext ==
    \/ CycleNoAlerts
    \/ \E alerts \in AlertLists, dir \in BOOLEAN :
          \E fault \in Faults(alerts, dir) : CycleSave(alerts, dir, fault)
    \/ SaveMkdir
    \/ SaveOpen
    \/ SaveDump
    \/ SaveFlush
    \/ SaveClose
    \/ GetAlerts

SpecPersist == PersistInit /\ [][PersistNext]_vars

(***************************************************************************)
(* Claims about the snapshot file                                          *)
(***************************************************************************)
\* C2: when save_alerts fails at any point (directory creation, opening the
\* file, serialising an alert) the cycle reports failure and the snapshot file
\* is exactly what it was before the call.
C2_FailedSaveLeavesSnapshot ==
    (unit = "persist" /\ s_pc = "idle" /\ s_result = "fail" /\ s_prev.exists) =>
        cy_result = "fail" /\ file = s_prev

\* C3: a get_alerts that runs while save_alerts is under way observes the
\* complete previous snapshot or the complete new one, never an empty or
\* partly written file.
C3_ReaderSeesWholeSnapshot ==
    (unit = "persist" /\ served.valid /\ served.during) =>
        \/ served.items = served.new
        \/ served.items = served.prev.items /\ (served.prev.complete \/ ~served.prev.exists)

\* a step of a cycle that fetched no entries or produced no alerts
EmptyCycleStep ==
    /\ unit = "persist" /\ s_pc = "idle" /\ s_pc' = "idle"
    /\ cy_result' = "ok" /\ s_result' = "none" /\ served' = served

\* the file is the snapshot some cycle saved, or there is none yet
HoldsCycleResult(f) == f.exists => (f.complete /\ f.items # <<>>)

\* C27: a cycle that fetches no entries or produces no alerts returns
\* success and leaves the snapshot file as it was, so the file holds the
\* result of the last cycle that produced an alert.
C27_EmptyCycleKeepsLastResult ==
    [][EmptyCycleStep => (file' = file /\ HoldsCycleResult(file'))]_vars

\* the part of C27 that holds: the cycle succeeds and does not touch the file
C27_EmptyCycleKeepsFile ==
    [][EmptyCycleStep => file' = file]_vars

(***************************************************************************)
(* The background scraper of app.py: run_original_scraper in a thread,     *)
(* restart_scraper, and the shutdown signal.  Thread 1 is started when the *)
(* module is imported (app.py 93); request h starts thread h + 1.          *)
(* Positions of a thread: "unborn", "start" (before line 33), "construct"  *)
(* (before line 38), "while" (at the test of line 48), "cycle" (inside     *)
(* run_single_cycle, line 54), "sleep" (lines 74, 77), "dead".             *)
(***************************************************************************)
\* app.py 23-27 and 86-93: the globals, and the first thread started
ScraperInit ==
    /\ unit = "scraper"
    /\ RetryIdle /\ LimiterIdle /\ CacheIdle /\ PersistIdle /\ RunIdle /\ FilterIdle
    /\ ThrottleIdle
    /\ FormatterIdle
    /\ LocationIdle
    /\ BasicIdle
    /\ scraper_running = FALSE /\ scraper_instance = 0
    /\ inst_running = [t \in Threads |-> FALSE]
    /\ sig_handler = 0 /\ alive = TRUE
    /\ t_pc = [t \in Threads |-> IF t = 1 THEN "start" ELSE "unborn"]
    /\ h_pc = [h \in Handlers |-> "idle"]

\* app.py 33: scraper_running = True
ThreadSetRunning(t) ==
    /\ unit = "scraper" /\ alive /\ t_pc[t] = "start"
    /\ scraper_running' = TRUE
    /\ t_pc' = [t_pc EXCEPT ![t] = "construct"]
    /\ UNCHANGED <<unit, notScraper, scraper_instance, inst_running, sig_handler, alive,
                   h_pc>>

\* app.py 38 with main.py 33-56: NewsScraper() sets running = False and installs
\* its signal handlers
ThreadConstructs(t) ==
    /\ unit = "scraper" /\ alive /\ t_pc[t] = "construct"
    /\ scraper_instance' = t
    /\ inst_running' = [inst_running EXCEPT ![t] = FALSE]
    /\ sig_handler' = t
    /\ t_pc' = [t_pc EXCEPT ![t] = "while"]
    /\ UNCHANGED <<unit, notScraper, scraper_running, alive, h_pc>>

\* app.py 38 and 83-84 with main.py 55: signal.signal raises when the caller
\* is not the main thread of the interpreter (whether it is depends on how
\* the host runs threads); the thread logs and ends, scraper_running stays set
ThreadConstructFails(t) ==
    /\ unit = "scraper" /\ alive /\ t_pc[t] = "construct"
    /\ t_pc' = [t_pc EXCEPT ![t] = "dead"]
    /\ UNCHANGED <<unit, notScraper, scraper_running, scraper_instance, inst_running,
                   sig_handler, alive, h_pc>>

\* app.py 48-54: the loop test; when it holds, run_single_cycle is entered
ThreadWhile(t) ==
    /\ unit = "scraper" /\ alive /\ t_pc[t] = "while"
    /\ t_pc' = [t_pc EXCEPT ![t] = IF scraper_running THEN "cycle" ELSE "dead"]
    /\ UNCHANGED <<unit, notScraper, scraper_running, scraper_instance, inst_running,
                   sig_handler, alive, h_pc>>

\* app.py 54-77: run_single_cycle returns, the alerts are reloaded, the thread
\* goes to sleep for the polling interval or the hour
ThreadCycleEnds(t) ==
    /\ unit = "scraper" /\ alive /\ t_pc[t] = "cycle"
    /\ t_pc' = [t_pc EXCEPT ![t] = "sleep"]
    /\ UNCHANGED <<unit, notScraper, scraper_running, scraper_instance, inst_running,
                   sig_handler, alive, h_pc>>

\* app.py 74-77: time.sleep returns, back to the loop test
ThreadWakes(t) ==
    /\ unit = "scraper" /\ alive /\ t_pc[t] = "sleep"
    /\ t_pc' = [t_pc EXCEPT ![t] = "while"]
    /\ UNCHANGED <<unit, notScraper, scraper_running, scraper_instance, inst_running,
                   sig_handler, alive, h_pc>>

\* app.py 165-169: restart_scraper clears the flags
RestartStops(h) ==
    /\ unit = "scraper" /\ alive /\ h_pc[h] = "idle"
    /\ \A g \in Handlers : g < h => h_pc[g] # "idle"
    /\ scraper_running' = FALSE
    /\ inst_running' = IF scraper_instance # 0
                       THEN [inst_running EXCEPT ![scraper_instance] = FALSE]
                       ELSE inst_running
    /\ h_pc' = [h_pc EXCEPT ![h] = "sleep"]
    /\ UNCHANGED <<unit, notScraper, scraper_instance, sig_handler, alive, t_pc>>

\* app.py 172-181 with 86-90: after time.sleep(2), a new thread is started.
\* Two seconds are enough for a thread that stood before line 33, before the
\* constructor (which makes no network call) or at the loop test to have moved
\* on; a cycle or a sleep of the loop may last longer.
RestartStarts(h) ==
    /\ unit = "scraper" /\ alive /\ h_pc[h] = "sleep"
    /\ \A t \in Threads : t_pc[t] \notin {"start", "construct", "while"}
    /\ t_pc' = [t_pc EXCEPT ![h + 1] = "start"]
    /\ h_pc' = [h_pc EXCEPT ![h] = "done"]
    /\ UNCHANGED <<unit, notScraper, scraper_running, scraper_instance, inst_running,
                   sig_handler, alive>>

\* main.py 58-61: SIGINT or SIGTERM arrives; the installed signal_handler
\* clears running of its instance.  With no handler installed the signal ends
\* the process.
ShutdownSignal ==
    /\ unit = "scraper" /\ alive
    /\ IF sig_handler # 0
       THEN /\ inst_running' = [inst_running EXCEPT ![sig_handler] = FALSE]
            /\ UNCHANGED <<alive, t_pc>>
       ELSE /\ alive' = FALSE
            /\ t_pc' = [t \in Threads |-> IF t_pc[t] = "unborn" THEN "unborn" ELSE "dead"]
            /\ UNCHANGED inst_running
    /\ UNCHANGED <<unit, notScraper, scraper_running, scraper_instance, sig_handler, h_pc>>

ScraperNext ==
    \/ \E t \in Threads : ThreadSetRunning(t)
    \/ \E t \in Threads : ThreadConstructs(t)
    \/ \E t \in Threads : ThreadConstructFails(t)
    \/ \E t \in Threads : ThreadWhile(t)
    \/ \E t \in Threads : ThreadCycleEnds(t)
    \/ \E t \in Threads : ThreadWakes(t)
    \/ \E h \in Handlers : RestartStops(h)
    \/ \E h \in Handlers : RestartStarts(h)
    \/ ShutdownSignal

SpecScraper == ScraperInit /\ [][ScraperNext]_vars

(***************************************************************************)
(* Claims about the background scraper                                     *)
(***************************************************************************)
InCycle == {t \in Threads : t_pc[t] = "cycle"}

InLoop == {t \in Threads : t_pc[t] \in {"while", "cycle", "sleep"}}

C4_NoOverlappingCycles ==
    unit = "scraper" => Cardinality(InCycle) <= 1

(***************************************************************************)
(* NewsScraper.run (main.py): the polling loop, one cycle, the fetch of    *)
(* every feed (feeds/base_feed.py, feeds/met_police_feed.py) and the       *)
(* shutdown signal.  The test of "while self.running" and the entry into   *)
(* the cycle are one step: a cycle is in flight from the test on.          *)
(***************************************************************************)
MaxCycles == 2
MaxEntries == 1

\* base_feed.py 42: the max_retries argument of the decorator on fetch_feed
FeedMaxRetries == 3

\* main.py 213: the cache is cleaned every so many cycles
CleanupEvery == 10

\* met_police_feed.py 23: the feed class that overrides fetch_feed
Overrides(k) == Feeds[k] = "Met Police"

\* the first n entries the source k publishes, as parse_entries returns them
Published(k, n) == [i \in 1 .. n |-> <<k, i>>]

NoneGot == [k \in FeedIds |-> <<>>]
NonePending == [k \in FeedIds |-> "pending"]

fetchLocals == <<feed_i, f_pc, f_trace, f_result, got, outcome, all_entries>>
cycleLocals == <<stage, success>>
cleanupLocals == <<clean_i, cleaned>>

\* main.py 249-250, 52: a scraper built on the main thread, run() about to begin;
\* the cache directory may hold records of an earlier run
RunInit ==
    /\ unit = "run"
    /\ RetryIdle /\ LimiterIdle /\ CacheIdle /\ PersistIdle /\ ScraperIdle /\ FilterIdle
    /\ ThrottleIdle
    /\ FormatterIdle
    /\ LocationIdle
    /\ BasicIdle
    /\ running = FALSE /\ cycle_count = 0 /\ pc = "start" /\ feed_i = 0
    /\ f_pc = "idle" /\ f_trace = <<>> /\ f_result = "pending"
    /\ cached \in {[k \in FeedIds |-> FALSE], [k \in FeedIds |-> ~Overrides(k)]}
    /\ got = NoneGot /\ outcome = NonePending
    /\ all_entries = <<>> /\ stage = "none" /\ success = "none"
    /\ clean_i = 0 /\ cleaned = {}

\* main.py 199-200
RunStart ==
    /\ unit = "run" /\ pc = "start"
    /\ running' = TRUE
    /\ cycle_count' = 0
    /\ pc' = "while"
    /\ UNCHANGED <<unit, notRun, fetchLocals, cached, cycleLocals, cleanupLocals>>

\* main.py 202 with the flag ignored
RunWhileEntersAnyway ==
    /\ unit = "run" /\ pc = "while" /\ cycle_count < MaxCycles
    /\ cycle_count' = cycle_count + 1
    /\ pc' = "fetch"
    /\ feed_i' = 1 /\ f_pc' = "call" /\ f_trace' = <<>> /\ f_result' = "pending"
    /\ got' = NoneGot /\ outcome' = NonePending /\ all_entries' = <<>>
    /\ stage' = "none" /\ success' = "none"
    /\ UNCHANGED <<unit, notRun, running, cached, cleanupLocals>>

\* main.py 202-207, 131-136, 70-72: the flag is set, a cycle begins and
\* fetch_all_feeds reaches its first feed
RunWhileEnters ==
    /\ unit = "run" /\ pc = "while" /\ running /\ cycle_count < MaxCycles
    /\ cycle_count' = cycle_count + 1
    /\ pc' = "fetch"
    /\ feed_i' = 1 /\ f_pc' = "call" /\ f_trace' = <<>> /\ f_result' = "pending"
    /\ got' = NoneGot /\ outcome' = NonePending /\ all_entries' = <<>>
    /\ stage' = "none" /\ success' = "none"
    /\ UNCHANGED <<unit, notRun, running, cached, cleanupLocals>>

\* main.py 202, 231-233: the flag is clear, the loop ends
RunWhileExits ==
    /\ unit = "run" /\ pc = "while" /\ ~running
    /\ pc' = "cleanup"
    /\ clean_i' = 1
    /\ UNCHANGED <<unit, notRun, running, cycle_count, fetchLocals, cached, cycleLocals,
                   cleaned>>

InFetch(k) == unit = "run" /\ pc = "fetch" /\ feed_i = k /\ k \in FeedIds

\* base_feed.py 51-54 (cache_manager.py 62-79): a fresh record, returned as it is
FetchCacheHit ==
    /\ InFetch(feed_i) /\ f_pc = "call" /\ ~Overrides(feed_i)
    /\ cached[feed_i]
    /\ f_trace' = <<"cache_get">>
    /\ f_result' = "cached"
    /\ f_pc' = "returned"
    /\ UNCHANGED <<unit, notRun, running, cycle_count, pc, feed_i, cached, got, outcome,
                   all_entries, cycleLocals, cleanupLocals>>

\* base_feed.py 51-52 (cache_manager.py 62-63, 73-76, 81-83): no record, or
\* an expired one, which get deletes
FetchCacheMiss ==
    /\ InFetch(feed_i) /\ f_pc = "call" /\ ~Overrides(feed_i)
    /\ f_trace' = <<"cache_get">>
    /\ cached' = [cached EXCEPT ![feed_i] = FALSE]
    /\ f_pc' = "limit"
    /\ UNCHANGED <<unit, notRun, running, cycle_count, pc, feed_i, f_result, got, outcome,
                   all_entries, cycleLocals, cleanupLocals>>

\* base_feed.py 57 (rate_limiter.py 132-135, 45-52)
FetchWait ==
    /\ InFetch(feed_i) /\ f_pc = "limit"
    /\ f_trace' = Append(f_trace, "wait")
    /\ f_pc' = "request"
    /\ UNCHANGED <<unit, notRun, running, cycle_count, pc, feed_i, f_result, cached, got,
                   outcome, all_entries, cycleLocals, cleanupLocals>>

\* base_feed.py 59-74: the request succeeds; cache.set stores the feed or fails
\* (cache_manager.py 102-119); the wrapper returns the feed (rate_limiter.py 73)
FetchRequestOk ==
    /\ InFetch(feed_i) /\ f_pc = "request"
    /\ f_trace' = Append(f_trace, "request")
    /\ \E stored \in BOOLEAN : cached' = [cached EXCEPT ![feed_i] = stored]
    /\ f_result' = "feed"
    /\ f_pc' = "returned"
    /\ UNCHANGED <<unit, notRun, running, cycle_count, pc, feed_i, got, outcome,
                   all_entries, cycleLocals, cleanupLocals>>

\* base_feed.py 61-62, 76-81: the request fails (connection error, timeout,
\* HTTP error status); fetch_feed catches it and returns None, which the
\* wrapper returns (rate_limiter.py 73): the wrapper sees no exception
FetchRequestFails ==
    /\ InFetch(feed_i) /\ f_pc = "request"
    /\ f_trace' = Append(f_trace, "request")
    /\ f_result' = "None"
    /\ f_pc' = "returned"
    /\ UNCHANGED <<unit, notRun, running, cycle_count, pc, feed_i, cached, got, outcome,
                   all_entries, cycleLocals, cleanupLocals>>

\* met_police_feed.py 27-36: the override requests the page at once
MetFetchOk ==
    /\ InFetch(feed_i) /\ f_pc = "call" /\ Overrides(feed_i)
    /\ f_trace' = <<"request">>
    /\ f_result' = "feed"
    /\ f_pc' = "returned"
    /\ UNCHANGED <<unit, notRun, running, cycle_count, pc, feed_i, cached, got, outcome,
                   all_entries, cycleLocals, cleanupLocals>>

\* met_police_feed.py 27-30, 38-40
MetFetchFails ==
    /\ InFetch(feed_i) /\ f_pc = "call" /\ Overrides(feed_i)
    /\ f_trace' = <<"request">>
    /\ f_result' = "None"
    /\ f_pc' = "returned"
    /\ UNCHANGED <<unit, notRun, running, cycle_count, pc, feed_i, cached, got, outcome,
                   all_entries, cycleLocals, cleanupLocals>>

\* main.py 72: the loop of fetch_all_feeds moves to the next feed
AtNextFeed ==
    /\ feed_i' = feed_i + 1
    /\ f_pc' = IF feed_i < Len(Feeds) THEN "call" ELSE "idle"
    /\ f_trace' = <<>>
    /\ f_result' = "pending"

\* base_feed.py 103-105, met_police_feed.py 206-208, main.py 75-77:
\* fetch_feed returned None, get_entries returns [], nothing is added
GetEntriesNone ==
    /\ InFetch(feed_i) /\ f_pc = "returned" /\ f_result = "None"
    /\ outcome' = [outcome EXCEPT ![feed_i] = "none"]
    /\ AtNextFeed
    /\ UNCHANGED <<unit, notRun, running, cycle_count, pc, cached, got, all_entries,
                   cycleLocals, cleanupLocals>>

\* base_feed.py 107, met_police_feed.py 210, main.py 75-77: parse_entries
\* returns the entries of the fetched document, all_entries is extended
GetEntriesParses ==
    /\ InFetch(feed_i) /\ f_pc = "returned" /\ f_result = "feed"
    /\ \E n \in 0 .. MaxEntries :
          /\ got' = [got EXCEPT ![feed_i] = Published(feed_i, n)]
          /\ all_entries' = all_entries \o Published(feed_i, n)
    /\ outcome' = [outcome EXCEPT ![feed_i] = "ok"]
    /\ AtNextFeed
    /\ UNCHANGED <<unit, notRun, running, cycle_count, pc, cached, cycleLocals,
                   cleanupLocals>>

\* main.py 78-80 without the continue: the loop is left
GetEntriesParseRaisesAborts ==
    /\ InFetch(feed_i) /\ f_pc = "returned" /\ f_result = "cached"
    /\ outcome' = [outcome EXCEPT ![feed_i] = "raised"]
    /\ feed_i' = Len(Feeds) + 1 /\ f_pc' = "idle"
    /\ f_trace' = <<>> /\ f_result' = "pending"
    /\ UNCHANGED <<unit, notRun, running, cycle_count, pc, cached, got, all_entries,
                   cycleLocals, cleanupLocals>>

\* base_feed.py 107 with bbc_feed.py 35, govuk_feed.py 35,
\* evening_standard_feed.py 35, main.py 78-80: the cached payload is the dict
\* json.load gave back (cache_manager.py 67, 79); "feed.entries" on it raises
\* AttributeError, which fetch_all_feeds catches
GetEntriesParseRaises ==
    /\ InFetch(feed_i) /\ f_pc = "returned" /\ f_result = "cached"
    /\ outcome' = [outcome EXCEPT ![feed_i] = "raised"]
    /\ AtNextFeed
    /\ UNCHANGED <<unit, notRun, running, cycle_count, pc, cached, got, all_entries,
                   cycleLocals, cleanupLocals>>

\* fetch_all_feeds has tried its last feed (main.py 82-83)
Fetched == unit = "run" /\ pc = "fetch" /\ feed_i = Len(Feeds) + 1

\* the locals of fetch_all_feeds are gone when it has returned
FetchLocalsDropped ==
    /\ feed_i' = 0 /\ got' = NoneGot /\ outcome' = NonePending /\ all_entries' = <<>>
    /\ UNCHANGED <<f_pc, f_trace, f_result>>

\* main.py 136-140
RunCycleNoEntries ==
    /\ Fetched /\ all_entries = <<>>
    /\ stage' = "no_entries"
    /\ success' = "True"
    /\ pc' = "returned"
    /\ FetchLocalsDropped
    /\ UNCHANGED <<unit, notRun, running, cycle_count, cached, cleanupLocals>>

\* main.py 143, 159-161: a stage of process_entries raises
RunProcessRaises ==
    /\ Fetched /\ all_entries # <<>>
    /\ stage' = "fault"
    /\ success' = "False"
    /\ pc' = "returned"
    /\ FetchLocalsDropped
    /\ UNCHANGED <<unit, notRun, running, cycle_count, cached, cleanupLocals>>

\* main.py 143-147: process_entries returns no alert
RunProcessNoAlerts ==
    /\ Fetched /\ all_entries # <<>>
    /\ stage' = "no_alerts"
    /\ success' = "True"
    /\ pc' = "returned"
    /\ FetchLocalsDropped
    /\ UNCHANGED <<unit, notRun, running, cycle_count, cached, cleanupLocals>>

\* main.py 143-150: process_entries returns alerts, save_alerts is called
RunProcessAlerts ==
    /\ Fetched /\ all_entries # <<>>
    /\ stage' = "alerts"
    /\ pc' = "save"
    /\ FetchLocalsDropped
    /\ UNCHANGED <<unit, notRun, running, cycle_count, cached, success, cleanupLocals>>

\* main.py 150-154: save_alerts returned True
RunSaveOk ==
    /\ unit = "run" /\ pc = "save"
    /\ stage' = "saved"
    /\ success' = "True"
    /\ pc' = "returned"
    /\ UNCHANGED <<unit, notRun, running, cycle_count, fetchLocals, cached, cleanupLocals>>

\* main.py 155-157 with the failure of save_alerts ignored
RunSaveFailsIgnored ==
    /\ unit = "run" /\ pc = "save"
    /\ stage' = "save_failed"
    /\ success' = "True"
    /\ pc' = "returned"
    /\ UNCHANGED <<unit, notRun, running, cycle_count, fetchLocals, cached, cleanupLocals>>

\* main.py 150, 155-157: save_alerts returned False
RunSaveFails ==
    /\ unit = "run" /\ pc = "save"
    /\ stage' = "save_failed"
    /\ success' = "False"
    /\ pc' = "returned"
    /\ UNCHANGED <<unit, notRun, running, cycle_count, fetchLocals, cached, cleanupLocals>>

\* main.py 207-221 (188, cache_manager.py clear_expired): the cycle has
\* returned; every CleanupEvery cycles expired records are removed; the
\* interval wait begins only if the flag is still set
RunAfterCycle ==
    /\ unit = "run" /\ pc = "returned"
    /\ \E gone \in (IF cycle_count % CleanupEvery = 0
                    THEN SUBSET {k \in FeedIds : cached[k]} ELSE {{}}) :
          cached' = [k \in FeedIds |-> cached[k] /\ k \notin gone]
    /\ pc' = IF running THEN "sleep" ELSE "while"
    /\ UNCHANGED <<unit, notRun, running, cycle_count, fetchLocals, cycleLocals,
                   cleanupLocals>>

\* main.py 221: time.sleep(POLLING_INTERVAL) ends
RunSleepEnds ==
    /\ unit = "run" /\ pc = "sleep"
    /\ pc' = "while"
    /\ UNCHANGED <<unit, notRun, running, cycle_count, fetchLocals, cached, cycleLocals,
                   cleanupLocals>>

\* main.py 233-237 (base_feed.py 109-113): cleanup() of one feed is called;
\* what it raises is swallowed
RunCleanupFeed ==
    /\ unit = "run" /\ pc = "cleanup" /\ clean_i \in FeedIds
    /\ cleaned' = cleaned \union {clean_i}
    /\ clean_i' = clean_i + 1
    /\ UNCHANGED <<unit, notRun, running, cycle_count, pc, fetchLocals, cached,
                   cycleLocals>>

\* main.py 239: run() returns
RunStops ==
    /\ unit = "run" /\ pc = "cleanup" /\ clean_i = Len(Feeds) + 1
    /\ pc' = "stopped"
    /\ UNCHANGED <<unit, notRun, running, cycle_count, fetchLocals, cached, cycleLocals,
                   cleanupLocals>>

\* main.py 58-61: SIGINT or SIGTERM arrives while run() is looping
RunSignal ==
    /\ unit = "run" /\ pc \notin {"start", "stopped"} /\ running
    /\ running' = FALSE
    /\ UNCHANGED <<unit, notRun, cycle_count, pc, fetchLocals, cached, cycleLocals,
                   cleanupLocals>>

\* The handler of main.py 226-229 is not reached: run_single_cycle catches
\* every Exception (main.py 159-161) and clear_expired catches its own.

\* the steps of the program, without the signal
RunProgram ==
    \/ RunStart
    \/ RunWhileEnters
    \/ RunWhileExits
    \/ FetchCacheHit
    \/ FetchCacheMiss
    \/ FetchWait
    \/ FetchRequestOk
    \/ FetchRequestFails
    \/ MetFetchOk
    \/ MetFetchFails
    \/ GetEntriesNone
    \/ GetEntriesParses
    \/ GetEntriesParseRaises
    \/ RunCycleNoEntries
    \/ RunProcessRaises
    \/ RunProcessNoAlerts
    \/ RunProcessAlerts
    \/ RunSaveOk
    \/ RunSaveFails
    \/ RunAfterCycle
    \/ RunSleepEnds
    \/ RunCleanupFeed
    \/ RunStops

RunNext ==
    \/ RunProgram
    \/ RunSignal

SpecRun == RunInit /\ [][RunNext]_vars

\* the interpreter keeps executing the main thread: a step of the program
\* that can be taken is taken
SpecRunFair == RunInit /\ [][RunNext]_vars /\ WF_vars(RunProgram)

\* the network requests this fetch_feed call has made
Requests == Cardinality({i \in 1 .. Len(f_trace) : f_trace[i] = "request"})

\* C11: in every fetch_feed call, of every configured feed, a network request
\* comes only after a cache lookup followed by a wait on the limiter, and a
\* call that returns the cached payload has made no network request.
C11_CacheThenLimiterBeforeRequest ==
    unit = "run" =>
        /\ \A i \in 1 .. Len(f_trace) :
              f_trace[i] = "request" =>
                  \E h, j \in 1 .. (i - 1) :
                      h < j /\ f_trace[h] = "cache_get" /\ f_trace[j] = "wait"
        /\ f_result = "cached" => Requests = 0

\* C12: a fetch_feed call gives up (returns nothing) on a failing network
\* request only after max_retries + 1 requests have been attempted.
C12_GivesUpAfterAllAttempts ==
    (unit = "run" /\ f_pc = "returned" /\ f_result = "None") =>
        Requests = FeedMaxRetries + 1

\* the entries of the feeds 1 .. k that succeeded, in configured order
RECURSIVE SucceededEntries(_)
SucceededEntries(k) ==
    IF k = 0 THEN <<>>
    ELSE SucceededEntries(k - 1) \o (IF outcome[k] = "ok" THEN got[k] ELSE <<>>)

\* C13: when fetch_all_feeds returns, every feed has been tried, whichever
\* feeds failed, and the combined list is the concatenation in configured
\* order of the entries of the feeds that succeeded.
C13_FailuresIsolated ==
    Fetched =>
        /\ \A k \in FeedIds : outcome[k] # "pending"
        /\ all_entries = SucceededEntries(Len(Feeds))

C13_Witness ==
    /\ Fetched
    /\ outcome[1] = "raised" /\ outcome[2] = "none"
    /\ outcome[3] = "ok" /\ outcome[4] = "ok"
    /\ all_entries = <<<<3, 1>>, <<4, 1>>>>

\* C14: run_single_cycle always returns a boolean; it returns False exactly
\* when save_alerts failed or a stage raised, and True in every other case,
\* the cycles without any entry included.
C14_CycleResult ==
    (unit = "run" /\ pc = "returned") =>
        /\ success \in {"True", "False"}
        /\ success = "False" <=> stage \in {"save_failed", "fault"}
        /\ stage \in {"no_entries", "no_alerts", "saved", "save_failed", "fault"}

C14_Witness ==
    /\ unit = "run" /\ pc = "returned" /\ cycle_count = 2
    /\ stage = "save_failed" /\ success = "False"

MaxWords == 4
FillerLen == 100

\* advanced_content_filter.py 202: a text longer than this gets the length bonus
LongText == 100

Vocabulary == {"knife", "attack", "alert", "witness", "london", "urgent", "serious"}

\* len(w) of the words of the vocabulary
WordLen(w) ==
    CASE w = "knife" -> 5 [] w = "attack" -> 6 [] w = "alert" -> 5
      [] w = "witness" -> 7 [] w = "london" -> 6 [] w = "urgent" -> 6
      [] w = "serious" -> 7

RECURSIVE WordsLen(_)
WordsLen(ws) ==
    IF ws = <<>> THEN 0
    ELSE WordLen(Head(ws)) + (IF Len(ws) > 1 THEN 1 ELSE 0) + WordsLen(Tail(ws))

\* the text made of the words ws, with the filler after them if filler is set
Text(ws, filler) ==
    [words |-> ws,
     len |-> WordsLen(ws)
             + (IF filler THEN (IF ws = <<>> THEN 0 ELSE 1) + FillerLen ELSE 0)]

RECURSIVE WordSeqs(_)
WordSeqs(n) ==
    IF n = 0 THEN {<<>>}
    ELSE LET shorter == WordSeqs(n - 1)
         IN  shorter \union {Append(ws, w) : ws \in shorter, w \in Vocabulary}

Texts == {Text(ws, filler) : ws \in WordSeqs(MaxWords), filler \in BOOLEAN}

\* config/settings.py 17-25: SECURITY_KEYWORDS
Keywords ==
    {"stabbing", "knife", "attack", "assault", "murder", "homicide",
     "protest", "demonstration", "riot", "unrest", "disorder",
     "terror", "terrorism", "bomb", "explosion", "fire",
     "shooting", "gun", "firearm", "weapon",
     "emergency", "evacuation", "lockdown", "alert",
     "crime", "criminal", "arrest", "police", "officer",
     "incident", "accident", "collision", "crash"}

\* advanced_content_filter.py 28-49: the categories in dictionary order
Categories ==
    <<"violent_crime", "public_disorder", "terrorism", "emergency", "police_activity">>

\* advanced_content_filter.py 28-49: each regex as the words it matches in a row
Patterns(cat) ==
    CASE cat = "violent_crime" ->
           {<<"stabbing">>, <<"knife", "attack">>, <<"assault">>, <<"murder">>,
            <<"homicide">>, <<"shooting">>, <<"gun", "crime">>, <<"weapon">>}
      [] cat = "public_disorder" ->
           {<<"protest">>, <<"demonstration">>, <<"riot">>, <<"unrest">>,
            <<"disorder">>, <<"disturbance">>, <<"clash">>, <<"confrontation">>}
      [] cat = "terrorism" ->
           {<<"terror">>, <<"terrorism">>, <<"bomb">>, <<"explosion">>,
            <<"threat">>, <<"alert">>, <<"security", "alert">>}
      [] cat = "emergency" ->
           {<<"emergency">>, <<"evacuation">>, <<"lockdown">>, <<"alert">>,
            <<"incident">>, <<"accident">>, <<"collision">>, <<"crash">>}
      [] cat = "police_activity" ->
           {<<"arrest">>, <<"police", "operation">>, <<"officer">>, <<"detective">>,
            <<"investigation">>, <<"appeal">>, <<"witness">>}

\* advanced_content_filter.py 58-63: context_words
ContextWords(bucket) ==
    CASE bucket = "london" ->
           {<<"london">>, <<"greater", "london">>, <<"central", "london">>,
            <<"south", "london">>, <<"east", "london">>, <<"north", "london">>,
            <<"west", "london">>}
      [] bucket = "urgency" ->
           {<<"urgent">>, <<"immediate">>, <<"breaking">>, <<"latest">>, <<"developing">>}
      [] bucket = "severity" ->
           {<<"serious">>, <<"major">>, <<"significant">>, <<"critical">>, <<"severe">>}

ContextBuckets == {"london", "urgency", "severity"}

\* the positions of ws at which the words p stand in a row
Matches(ws, p) ==
    {i \in 1 .. (Len(ws) - Len(p) + 1) : SubSeq(ws, i, i + Len(p) - 1) = p}

\* advanced_content_filter.py 159-160: len(pattern.findall(content))
Hits(ws, p) == Cardinality(Matches(ws, p))

RECURSIVE SumHits(_, _)
SumHits(ws, ps) ==
    IF ps = {} THEN 0
    ELSE LET p == CHOOSE q \in ps : TRUE
         IN  Hits(ws, p) + SumHits(ws, ps \ {p})

\* advanced_content_filter.py 156-161: the score of one category
CategoryScore(ws, cat) == SumHits(ws, Patterns(cat))

\* advanced_content_filter.py 90-106
ContainsSecurityKeywords(t) ==
    /\ t.len > 0
    /\ \/ \E i \in 1 .. Len(t.words) : t.words[i] \in Keywords
       \/ \E c \in 1 .. Len(Categories) :
             \E p \in Patterns(Categories[c]) : Hits(t.words, p) > 0

\* advanced_content_filter.py 118-138: the keywords found and the text each
\* matching regex matched, without duplicates; each as a sequence of words
GetMatchedKeywords(t) ==
    IF t.len = 0 THEN {}
    ELSE {<<t.words[i]>> : i \in {j \in 1 .. Len(t.words) : t.words[j] \in Keywords}}
         \union
         UNION {{p \in Patterns(Categories[c]) : Hits(t.words, p) > 0} :
                    c \in 1 .. Len(Categories)}

\* advanced_content_filter.py 150-167: max() over the dictionary gives the
\* first category, in dictionary order, whose score is the greatest; the
\* dictionary has five entries for every non-empty text
GetSecurityCategory(t) ==
    IF t.len = 0 THEN "unknown"
    ELSE LET best == CHOOSE c \in 1 .. Len(Categories) :
                       /\ \A d \in 1 .. Len(Categories) :
                             CategoryScore(t.words, Categories[d])
                                 <= CategoryScore(t.words, Categories[c])
                       /\ \A d \in 1 .. (c - 1) :
                             CategoryScore(t.words, Categories[d])
                                 < CategoryScore(t.words, Categories[c])
         IN  Categories[best]

\* advanced_content_filter.py 190-194: the context buckets with a term in the text
ContextBonus(t) ==
    Cardinality({b \in ContextBuckets :
                    \E p \in ContextWords(b) : Hits(t.words, p) > 0})

\* advanced_content_filter.py 205 lost: the sum is returned as it is
CapLost(s) == s

\* advanced_content_filter.py 205: min(score, 1.0)
CapAtOne(s) == Min(s, 10)

\* advanced_content_filter.py 179-205
CalculateRelevanceScore(t) ==
    IF t.len = 0 THEN 0
    ELSE CapAtOne(Min(2 * Cardinality(GetMatchedKeywords(t)), 6)
                  + ContextBonus(t)
                  + (IF GetSecurityCategory(t) # "unknown" THEN 2 ELSE 0)
                  + (IF t.len > LongText THEN 1 ELSE 0))

\* a call of one of the scoring functions on some text
ScoreInit ==
    /\ unit = "score"
    /\ RetryIdle /\ LimiterIdle /\ CacheIdle /\ PersistIdle /\ ScraperIdle /\ RunIdle
    /\ ThrottleIdle
    /\ FormatterIdle
    /\ LocationIdle
    /\ BasicIdle
    /\ text \in Texts
    /\ score = -1 /\ category = "none"
    /\ entries = <<>> /\ min_relevance = 0 /\ filtered_entries = <<>>
    /\ fl_pc = "idle"

\* advanced_content_filter.py 169-205
ScoreCalled ==
    /\ unit = "score" /\ score = -1
    /\ score' = CalculateRelevanceScore(text)
    /\ UNCHANGED <<unit, notFilter, text, category, entries, min_relevance,
                   filtered_entries, fl_pc>>

\* advanced_content_filter.py 140-167
CategoryCalled ==
    /\ unit = "score" /\ category = "none"
    /\ category' = GetSecurityCategory(text)
    /\ UNCHANGED <<unit, notFilter, text, score, entries, min_relevance,
                   filtered_entries, fl_pc>>

ScoreNext ==
    \/ ScoreCalled
    \/ CategoryCalled

SpecScore == ScoreInit /\ [][ScoreNext]_vars

\* some category regex has a hit in the words ws
AnyCategoryHit(ws) ==
    \E c \in 1 .. Len(Categories) : CategoryScore(ws, Categories[c]) > 0

\* C17: calculate_relevance_score returns a value in [0,1] for every text,
\* and every entry filter_entries returns carries a relevance_score in [0,1].
C17_ScoreInUnitInterval ==
    /\ (unit = "score" /\ score # -1) => (0 <= score /\ score <= 10)
    /\ (unit = "filter" /\ fl_pc = "returned") =>
           \A i \in 1 .. Len(filtered_entries) :
               /\ 0 <= filtered_entries[i].relevance_score
               /\ filtered_entries[i].relevance_score <= 10

C17_Witness ==
    /\ unit = "score" /\ score = 10
    /\ Cardinality(GetMatchedKeywords(text)) = 3
    /\ ContextBonus(text) = 2
    /\ text.len > LongText

\* C18: for a non-empty text the score is min(0.2 * matched keywords, 0.6),
\* plus 0.1 for each context bucket with a term present, plus 0.2 if and only
\* if some category regex matched, plus 0.1 if and only if the text is longer
\* than 100 characters, clipped to [0,1].
C18_ScoreAsSpecified ==
    (unit = "score" /\ score # -1 /\ text.len > 0) =>
        score = Min(Min(2 * Cardinality(GetMatchedKeywords(text)), 6)
                    + ContextBonus(text)
                    + (IF AnyCategoryHit(text.words) THEN 2 ELSE 0)
                    + (IF text.len > 100 THEN 1 ELSE 0),
                    10)

\* C19: get_security_category returns the category with the most regex hits,
\* the earliest in enumeration order among ties, and unknown when no category
\* regex has a hit.
C19_CategoryAsSpecified ==
    (unit = "score" /\ category # "none") =>
        IF AnyCategoryHit(text.words)
        THEN \E c \in 1 .. Len(Categories) :
                /\ category = Categories[c]
                /\ \A d \in 1 .. Len(Categories) :
                      CategoryScore(text.words, Categories[d])
                          <= CategoryScore(text.words, Categories[c])
                /\ \A d \in 1 .. (c - 1) :
                      CategoryScore(text.words, Categories[d])
                          < CategoryScore(text.words, Categories[c])
        ELSE category = "unknown"

(***************************************************************************)
(* AdvancedContentFilter.filter_entries                                    *)
(***************************************************************************)
MaxIn == 3

\* main.py 101 passes 0.3; 0.5 is a stricter caller
MinRelevances == {3, 5}

\* the entries of the input lists: title and content of each
SampleEntries ==
    {[title |-> Text(<<>>, FALSE),
      content |-> Text(<<"london", "urgent", "serious">>, TRUE)],
     [title |-> Text(<<"witness">>, FALSE),
      content |-> Text(<<>>, FALSE)],
     [title |-> Text(<<"knife">>, FALSE),
      content |-> Text(<<"knife", "attack">>, FALSE)],
     [title |-> Text(<<"knife">>, FALSE),
      content |-> Text(<<"london">>, FALSE)],
     [title |-> Text(<<"alert">>, FALSE),
      content |-> Text(<<"alert", "london">>, FALSE)],
     [title |-> Text(<<"alert">>, FALSE),
      content |-> Text(<<"witness", "witness", "urgent">>, TRUE)],
     [title |-> Text(<<"knife", "attack">>, FALSE),
      content |-> Text(<<"alert", "london", "urgent", "serious">>, TRUE)]}

RECURSIVE EntryLists(_)
EntryLists(n) ==
    IF n = 0 THEN {<<>>}
    ELSE LET shorter == EntryLists(n - 1)
         IN  shorter \union {Append(es, e) : es \in shorter, e \in SampleEntries}

\* advanced_content_filter.py 222-226: f"{title} {content}"
CombinedText(e) ==
    [words |-> e.title.words \o e.content.words,
     len |-> e.title.len + 1 + e.content.len]

\* advanced_content_filter.py 232 without the threshold
PassesAnyway(s, m) == TRUE

\* advanced_content_filter.py 232: relevance_score >= min_relevance
Passes(s, m) == s >= m

\* advanced_content_filter.py 228-232: the entry is kept
Keeps(e, m) ==
    /\ ContainsSecurityKeywords(CombinedText(e))
    /\ Passes(CalculateRelevanceScore(CombinedText(e)), m)

\* advanced_content_filter.py 234-236: the metadata added to a kept entry
WithMetadata(e) ==
    [title |-> e.title, content |-> e.content,
     matched_keywords |-> GetMatchedKeywords(CombinedText(e)),
     security_category |-> GetSecurityCategory(CombinedText(e)),
     relevance_score |-> CalculateRelevanceScore(CombinedText(e))]

\* advanced_content_filter.py 219-238: the loop over the entries
RECURSIVE KeptEntries(_, _)
KeptEntries(es, m) ==
    IF es = <<>> THEN <<>>
    ELSE LET rest == KeptEntries(SubSeq(es, 1, Len(es) - 1), m)
             e == es[Len(es)]
         IN  IF Keeps(e, m) THEN Append(rest, WithMetadata(e)) ELSE rest

\* x put behind the last element of the sorted list s that scores at least as much
InsertByScore(x, s) ==
    LET before == Cardinality({i \in 1 .. Len(s) :
                                  s[i].relevance_score >= x.relevance_score})
    IN  SubSeq(s, 1, before) \o <<x>> \o SubSeq(s, before + 1, Len(s))

\* advanced_content_filter.py 244: list.sort(key=score, reverse=True), which is
\* stable: entries of equal score keep their order
RECURSIVE SortByScore(_)
SortByScore(s) ==
    IF s = <<>> THEN <<>>
    ELSE InsertByScore(s[Len(s)], SortByScore(SubSeq(s, 1, Len(s) - 1)))

\* a call filter_entries(entries, min_relevance)
FilterInit ==
    /\ unit = "filter"
    /\ RetryIdle /\ LimiterIdle /\ CacheIdle /\ PersistIdle /\ ScraperIdle /\ RunIdle
    /\ ThrottleIdle
    /\ FormatterIdle
    /\ LocationIdle
    /\ BasicIdle
    /\ text = NoText /\ score = -1 /\ category = "none"
    /\ entries \in EntryLists(MaxIn)
    /\ min_relevance \in MinRelevances
    /\ filtered_entries = <<>>
    /\ fl_pc = "called"

\* advanced_content_filter.py 207-248
FilterEntries ==
    /\ unit = "filter" /\ fl_pc = "called"
    /\ filtered_entries' = SortByScore(KeptEntries(entries, min_relevance))
    /\ fl_pc' = "returned"
    /\ UNCHANGED <<unit, notFilter, text, score, category, entries, min_relevance>>

FilterNext == FilterEntries

SpecFilter == FilterInit /\ [][FilterNext]_vars

\* the scoring functions and filter_entries
ClassifierInit == ScoreInit \/ FilterInit
ClassifierNext == ScoreNext \/ FilterNext
SpecClassifier == ClassifierInit /\ [][ClassifierNext]_vars

\* how many elements of the list s have title and content of e
Occurrences(s, e) ==
    Cardinality({i \in 1 .. Len(s) : s[i].title = e.title /\ s[i].content = e.content})

\* the entry has a security keyword or a category pattern in title or content
HasSecurityTerm(e) ==
    \E i \in 1 .. Len(CombinedText(e).words) :
        \/ CombinedText(e).words[i] \in Keywords
        \/ \E c \in 1 .. Len(Categories) : \E p \in Patterns(Categories[c]) :
              i \in Matches(CombinedText(e).words, p)

\* C20: filter_entries returns exactly the input entries that contain a
\* security keyword or category pattern and score at least min_relevance,
\* each with its matched keywords, category and score, ordered by score
\* non-increasing; no entry scoring below min_relevance is returned.
C20_FilterSelectsAndSorts ==
    (unit = "filter" /\ fl_pc = "returned") =>
        /\ \A e \in SampleEntries :
              Occurrences(filtered_entries, e) =
                  IF HasSecurityTerm(e)
                     /\ CalculateRelevanceScore(CombinedText(e)) >= min_relevance
                  THEN Occurrences(entries, e) ELSE 0
        /\ \A i \in 1 .. Len(filtered_entries) :
              LET o == filtered_entries[i]
                  t == CombinedText([title |-> o.title, content |-> o.content])
              IN  /\ o.matched_keywords = GetMatchedKeywords(t)
                  /\ o.security_category = GetSecurityCategory(t)
                  /\ o.relevance_score = CalculateRelevanceScore(t)
                  /\ o.relevance_score >= min_relevance
        /\ \A i \in 1 .. (Len(filtered_entries) - 1) :
              filtered_entries[i].relevance_score
                  >= filtered_entries[i + 1].relevance_score

C20_Witness ==
    /\ unit = "filter" /\ fl_pc = "returned" /\ min_relevance = 5
    /\ Len(entries) = 3 /\ Len(filtered_entries) = 2
    /\ ~HasSecurityTerm(entries[1])
    /\ filtered_entries[1].title = entries[3].title
    /\ filtered_entries[1].content = entries[3].content
    /\ filtered_entries[1].relevance_score > filtered_entries[2].relevance_score

(***************************************************************************)
(* ContentFilter: the basic keyword filter (processors/content_filter.py)  *)
(*                                                                         *)
(* A text is the sequence of its characters.  A character that is not      *)
(* ASCII is written by its code point: "U+0130" is the capital I with dot  *)
(* above, "U+017F" the long s, "U+0307" the combining dot above.           *)
(***************************************************************************)
MaxBasicIn == 2

UpperCase ==
    <<"A", "B", "C", "D", "E", "F", "G", "H", "I", "J", "K", "L", "M",
      "N", "O", "P", "Q", "R", "S", "T", "U", "V", "W", "X", "Y", "Z">>

LowerCase ==
    <<"a", "b", "c", "d", "e", "f", "g", "h", "i", "j", "k", "l", "m",
      "n", "o", "p", "q", "r", "s", "t", "u", "v", "w", "x", "y", "z">>

Letters == 1 .. 26

\* settings.py 17-25, in list order
SECURITY_KEYWORDS ==
    <<<<"s", "t", "a", "b", "b", "i", "n", "g">>,
      <<"k", "n", "i", "f", "e">>,
      <<"a", "t", "t", "a", "c", "k">>,
      <<"a", "s", "s", "a", "u", "l", "t">>,
      <<"m", "u", "r", "d", "e", "r">>,
      <<"h", "o", "m", "i", "c", "i", "d", "e">>,
      <<"p", "r", "o", "t", "e", "s", "t">>,
      <<"d", "e", "m", "o", "n", "s", "t", "r", "a", "t", "i", "o", "n">>,
      <<"r", "i", "o", "t">>,
      <<"u", "n", "r", "e", "s", "t">>,
      <<"d", "i", "s", "o", "r", "d", "e", "r">>,
      <<"t", "e", "r", "r", "o", "r">>,
      <<"t", "e", "r", "r", "o", "r", "i", "s", "m">>,
      <<"b", "o", "m", "b">>,
      <<"e", "x", "p", "l", "o", "s", "i", "o", "n">>,
      <<"f", "i", "r", "e">>,
      <<"s", "h", "o", "o", "t", "i", "n", "g">>,
      <<"g", "u", "n">>,
      <<"f", "i", "r", "e", "a", "r", "m">>,
      <<"w", "e", "a", "p", "o", "n">>,
      <<"e", "m", "e", "r", "g", "e", "n", "c", "y">>,
      <<"e", "v", "a", "c", "u", "a", "t", "i", "o", "n">>,
      <<"l", "o", "c", "k", "d", "o", "w", "n">>,
      <<"a", "l", "e", "r", "t">>,
      <<"c", "r", "i", "m", "e">>,
      <<"c", "r", "i", "m", "i", "n", "a", "l">>,
      <<"a", "r", "r", "e", "s", "t">>,
      <<"p", "o", "l", "i", "c", "e">>,
      <<"o", "f", "f", "i", "c", "e", "r">>,
      <<"i", "n", "c", "i", "d", "e", "n", "t">>,
      <<"a", "c", "c", "i", "d", "e", "n", "t">>,
      <<"c", "o", "l", "l", "i", "s", "i", "o", "n">>,
      <<"c", "r", "a", "s", "h">>>>

\* the class of \w: letters (of any script), digits and the underscore
IsWordChar(c) ==
    \/ \E i \in Letters : c = UpperCase[i] \/ c = LowerCase[i]
    \/ c \in {"0", "1", "2", "3", "4", "5", "6", "7", "8", "9", "_"}
    \/ c \in {"U+0130", "U+017F"}

\* \b at the position after the first p characters of t
WordBoundary(t, p) ==
    (p >= 1 /\ IsWordChar(t[p])) # (p < Len(t) /\ IsWordChar(t[p + 1]))

\* re.IGNORECASE: the text character c matches the pattern character k
IgnoreCaseEq(c, k) ==
    \/ c = k
    \/ \E i \in Letters : {c, k} = {UpperCase[i], LowerCase[i]}
    \/ k \in {"i", "I"} /\ c = "U+0130"
    \/ k \in {"s", "S"} /\ c = "U+017F"

\* str.lower() of one character
LowerChar(c) ==
    IF \E i \in Letters : c = UpperCase[i]
    THEN <<LowerCase[CHOOSE i \in Letters : c = UpperCase[i]]>>
    ELSE IF c = "U+0130" THEN <<"i", "U+0307">>
    ELSE <<c>>

\* str.lower()
RECURSIVE StrLower(_)
StrLower(t) ==
    IF t = <<>> THEN <<>> ELSE LowerChar(Head(t)) \o StrLower(Tail(t))

\* re.search(r'\b' + re.escape(keyword) + r'\b', t), with re.IGNORECASE
\* when ignorecase
Search(t, keyword, ignorecase) ==
    \E p \in 0 .. (Len(t) - Len(keyword)) :
        /\ WordBoundary(t, p)
        /\ WordBoundary(t, p + Len(keyword))
        /\ \A j \in 1 .. Len(keyword) :
              IF ignorecase THEN IgnoreCaseEq(t[p + j], keyword[j])
              ELSE t[p + j] = keyword[j]

\* content_filter.py 24-44
CF_ContainsSecurityKeywords(content) ==
    IF content = <<>> THEN FALSE
    ELSE \E k \in 1 .. Len(SECURITY_KEYWORDS) :
            Search(content, SECURITY_KEYWORDS[k], TRUE)

\* content_filter.py 46-66
CF_GetMatchedKeywords(content) ==
    IF content = <<>> THEN <<>>
    ELSE LET content_lower == StrLower(content)
             Found(keyword) == Search(content_lower, keyword, FALSE)
         IN  SelectSeq(SECURITY_KEYWORDS, Found)

\* the entries a test feeds to the filter
BasicEntries ==
    {[title |-> <<"K", "n", "i", "f", "e", " ", "c", "r", "i", "m", "e">>, content |-> <<"i", "n", " ", "S", "o", "h", "o">>],
     [title |-> <<"F", "i", "r", "e", "w", "o", "r", "k", "s">>, content |-> <<>>],
     [title |-> <<"F", "I", "R", "E", "!">>, content |-> <<>>],
     [title |-> <<"P", "O", "L", "U+0130", "C", "E">>, content |-> <<>>],
     [title |-> <<"F", "o", "g">>, content |-> <<"g", "u", "n", "_", "c", "r", "i", "m", "e">>],
     [title |-> <<>>, content |-> <<"a", " ", "U+017F", "t", "a", "b", "b", "i", "n", "g">>],
     [title |-> <<>>, content |-> <<>>],
     [title |-> <<"B", "u", "s">>, content |-> <<"k", "n", "i", "f", "e", "-", "a", "t", "t", "a", "c", "k">>]}

RECURSIVE BasicEntryLists(_)
BasicEntryLists(n) ==
    IF n = 0 THEN {<<>>}
    ELSE LET shorter == BasicEntryLists(n - 1)
         IN  shorter \cup {Append(s, e) : s \in {x \in shorter : Len(x) = n - 1},
                                          e \in BasicEntries}

\* content_filter.py 84
CF_CombinedText(e) == e.title \o <<" ">> \o e.content

\* content_filter.py 86
CF_Keeps(e) == CF_ContainsSecurityKeywords(CF_CombinedText(e))

\* content_filter.py 81-92: the loop over entries
RECURSIVE CF_Kept(_)
CF_Kept(s) ==
    IF s = <<>> THEN <<>>
    ELSE LET e == s[Len(s)]
             rest == CF_Kept(SubSeq(s, 1, Len(s) - 1))
         IN  IF CF_Keeps(e)
             THEN Append(rest, [title |-> e.title, content |-> e.content,
                                matched_keywords |->
                                    CF_GetMatchedKeywords(CF_CombinedText(e))])
             ELSE rest

\* a call contains_security_keywords(content) or filter_entries(entries)
BasicInit ==
    /\ unit = "basic"
    /\ RetryIdle /\ LimiterIdle /\ CacheIdle /\ PersistIdle /\ ScraperIdle /\ RunIdle
    /\ FilterIdle /\ LocationIdle /\ FormatterIdle /\ ThrottleIdle
    /\ b_contains = "none" /\ b_filtered = <<>>
    /\ \/ /\ b_pc = "contains"
          /\ b_content \in {<<>>} \cup {CF_CombinedText(e) : e \in BasicEntries}
          /\ b_entries = <<>>
       \/ /\ b_pc = "filter"
          /\ b_content = <<>>
          /\ b_entries \in BasicEntryLists(MaxBasicIn)

\* content_filter.py 24-44
CF_ContainsCalled ==
    /\ unit = "basic" /\ b_pc = "contains"
    /\ b_contains' = CF_ContainsSecurityKeywords(b_content)
    /\ b_pc' = "tested"
    /\ UNCHANGED <<unit, notBasic, b_content, b_entries, b_filtered>>

\* content_filter.py 68-94
CF_FilterEntries ==
    /\ unit = "basic" /\ b_pc = "filter"
    /\ b_filtered' = CF_Kept(b_entries)
    /\ b_pc' = "filtered"
    /\ UNCHANGED <<unit, notBasic, b_content, b_contains, b_entries>>

BasicNext == CF_ContainsCalled \/ CF_FilterEntries

SpecBasic == BasicInit /\ [][BasicNext]_vars

\* the words of t: its maximal runs of word characters, as (first, last)
WordsOf(t) ==
    {w \in (1 .. Len(t)) \X (1 .. Len(t)) :
        /\ w[1] <= w[2]
        /\ \A j \in w[1] .. w[2] : IsWordChar(t[j])
        /\ w[1] = 1 \/ ~IsWordChar(t[w[1] - 1])
        /\ w[2] = Len(t) \/ ~IsWordChar(t[w[2] + 1])}

\* the keyword is one of the words of t, letter case ignored
OccursAsWholeWord(t, keyword) ==
    \E w \in WordsOf(t) :
        /\ w[2] - w[1] + 1 = Len(keyword)
        /\ \A j \in 1 .. Len(keyword) : IgnoreCaseEq(t[w[1] + j - 1], keyword[j])

SomeKeywordOccurs(t) ==
    \E k \in 1 .. Len(SECURITY_KEYWORDS) : OccursAsWholeWord(t, SECURITY_KEYWORDS[k])

RECURSIVE EntriesWithKeyword(_)
EntriesWithKeyword(s) ==
    IF s = <<>> THEN <<>>
    ELSE LET e == s[Len(s)]
             rest == EntriesWithKeyword(SubSeq(s, 1, Len(s) - 1))
         IN  IF SomeKeywordOccurs(CF_CombinedText(e)) THEN Append(rest, e) ELSE rest

\* C21: contains_security_keywords(text) is true exactly when some keyword
\* of the list occurs in text as a whole word, letter case ignored, and
\* filter_entries keeps exactly the entries for which it is true, each with
\* the non-empty list of the keywords that matched.
C21_WholeWordFilter ==
    /\ (unit = "basic" /\ b_pc = "tested") =>
          (b_contains <=> SomeKeywordOccurs(b_content))
    /\ (unit = "basic" /\ b_pc = "filtered") =>
          /\ Len(b_filtered) = Len(EntriesWithKeyword(b_entries))
          /\ \A i \in 1 .. Len(b_filtered) :
                LET e == EntriesWithKeyword(b_entries)[i]
                    o == b_filtered[i]
                IN  /\ o.title = e.title /\ o.content = e.content
                    /\ o.matched_keywords # <<>>
                    /\ \A k \in 1 .. Len(SECURITY_KEYWORDS) :
                          OccursAsWholeWord(CF_CombinedText(e), SECURITY_KEYWORDS[k])
                          <=> \E m \in 1 .. Len(o.matched_keywords) :
                                 o.matched_keywords[m] = SECURITY_KEYWORDS[k]

\* the two halves of C21 that hold: the test, and the selection
C21_ContainsIsWholeWord ==
    (unit = "basic" /\ b_pc = "tested") =>
        (b_contains <=> SomeKeywordOccurs(b_content))

C21_KeepsExactlyMatching ==
    (unit = "basic" /\ b_pc = "filtered") =>
        /\ Len(b_filtered) = Len(EntriesWithKeyword(b_entries))
        /\ \A i \in 1 .. Len(b_filtered) :
              /\ b_filtered[i].title = EntriesWithKeyword(b_entries)[i].title
              /\ b_filtered[i].content = EntriesWithKeyword(b_entries)[i].content

(***************************************************************************)
(* LocationMatcher (processors/location_matcher.py) and the                *)
(* get_coordinates of AdvancedGeocoder (processors/geocoder.py)            *)
(*                                                                         *)
(* A text is the sequence of its words in lower case; the token "." stands *)
(* for punctuation between two words.  Words are separated by one space.   *)
(* A location name is a string, None is "None", and a coordinate is the    *)
(* decimal numeral of the float.                                           *)
(***************************************************************************)
MaxLocIn == 2

None == "None"

\* settings.py 35-36
DEFAULT_LAT == "51.5074"
DEFAULT_LON == "-0.1278"

\* config/locations.py: the gazetteer, name -> {lat, lon}, with the words of
\* each name
LONDON_LOCATIONS ==
    <<[name |-> "oxford circus", words |-> <<"oxford", "circus">>,
       lat |-> "51.5154", lon |-> "-0.1410"],
      [name |-> "westminster", words |-> <<"westminster">>,
       lat |-> "51.4995", lon |-> "-0.1245"],
      [name |-> "camden", words |-> <<"camden">>,
       lat |-> "51.5455", lon |-> "-0.1627"],
      [name |-> "southwark", words |-> <<"southwark">>,
       lat |-> "51.4880", lon |-> "-0.0910"],
      [name |-> "soho", words |-> <<"soho">>,
       lat |-> "51.5137", lon |-> "-0.1337"],
      [name |-> "newham", words |-> <<"newham">>,
       lat |-> "51.5250", lon |-> "0.0036"],
      [name |-> "chelsea", words |-> <<"chelsea">>,
       lat |-> "51.4875", lon |-> "-0.1687"]>>

\* the gazetteers a deployment may configure: all of the names, or without
\* the last two
Gazetteers == {LONDON_LOCATIONS, SubSeq(LONDON_LOCATIONS, 1, 5)}

\* geocoder.py 28-61
LondonBoroughs ==
    <<[name |-> "barking and dagenham", lat |-> "51.5400", lon |-> "0.0800"],
      [name |-> "barnet", lat |-> "51.6500", lon |-> "-0.2000"],
      [name |-> "bexley", lat |-> "51.4500", lon |-> "0.1500"],
      [name |-> "brent", lat |-> "51.5500", lon |-> "-0.3000"],
      [name |-> "bromley", lat |-> "51.4000", lon |-> "0.0500"],
      [name |-> "camden", lat |-> "51.5455", lon |-> "-0.1627"],
      [name |-> "croydon", lat |-> "51.3700", lon |-> "-0.1000"],
      [name |-> "ealing", lat |-> "51.5100", lon |-> "-0.3000"],
      [name |-> "enfield", lat |-> "51.6520", lon |-> "-0.0800"],
      [name |-> "greenwich", lat |-> "51.4767", lon |-> "-0.0000"],
      [name |-> "hackney", lat |-> "51.5450", lon |-> "-0.0550"],
      [name |-> "hammersmith and fulham", lat |-> "51.4925", lon |-> "-0.2225"],
      [name |-> "haringey", lat |-> "51.5900", lon |-> "-0.1100"],
      [name |-> "harrow", lat |-> "51.5800", lon |-> "-0.3300"],
      [name |-> "havering", lat |-> "51.5750", lon |-> "0.1833"],
      [name |-> "hillingdon", lat |-> "51.5400", lon |-> "-0.4700"],
      [name |-> "hounslow", lat |-> "51.4700", lon |-> "-0.3600"],
      [name |-> "islington", lat |-> "51.5362", lon |-> "-0.1033"],
      [name |-> "kensington and chelsea", lat |-> "51.5000", lon |-> "-0.1900"],
      [name |-> "kingston upon thames", lat |-> "51.4100", lon |-> "-0.3000"],
      [name |-> "lambeth", lat |-> "51.4613", lon |-> "-0.1156"],
      [name |-> "lewisham", lat |-> "51.4567", lon |-> "-0.0167"],
      [name |-> "merton", lat |-> "51.4100", lon |-> "-0.2000"],
      [name |-> "newham", lat |-> "51.5250", lon |-> "0.0036"],
      [name |-> "redbridge", lat |-> "51.5600", lon |-> "0.0700"],
      [name |-> "richmond upon thames", lat |-> "51.4500", lon |-> "-0.3000"],
      [name |-> "southwark", lat |-> "51.4880", lon |-> "-0.0910"],
      [name |-> "sutton", lat |-> "51.3600", lon |-> "-0.2000"],
      [name |-> "tower hamlets", lat |-> "51.5200", lon |-> "-0.0500"],
      [name |-> "waltham forest", lat |-> "51.5900", lon |-> "-0.0100"],
      [name |-> "wandsworth", lat |-> "51.4567", lon |-> "-0.1920"],
      [name |-> "westminster", lat |-> "51.4995", lon |-> "-0.1245"]>>

\* name in table
InTable(table, name) == \E g \in 1 .. Len(table) : table[g].name = name

\* table[name]
Lookup(table, name) == table[CHOOSE g \in 1 .. Len(table) : table[g].name = name]

\* the gazetteer name whose words are ws, for a match of a pattern
InLocations(ws) == \E g \in 1 .. Len(locations) : locations[g].words = ws
NameOf(ws) == locations[CHOOSE g \in 1 .. Len(locations) : locations[g].words = ws].name

\* str.lower() of the names used as arguments
NameLower(name) ==
    CASE name = "Oxford Circus" -> "oxford circus"
      [] name = "SOHO" -> "soho"
      [] OTHER -> name

\* sub in s, for the strings and words of the sample texts
InStr(sub, s) ==
    \/ sub = s
    \/ <<sub, s>> \in {<<"south", "southwark">>, <<"south", "southampton">>,
                       <<"west", "westminster">>, <<"east", "feast">>,
                       <<"north", "northern">>, <<"incident", "incidents">>}

\* sub in text, for a sub without a space
InText(sub, ws) == \E i \in 1 .. Len(ws) : InStr(sub, ws[i])

\* the words ws stand in text at position i
WordsAt(ws, i, name) ==
    /\ i + Len(name) - 1 <= Len(ws)
    /\ \A j \in 1 .. Len(name) : ws[i + j - 1] = name[j]

\* the last word of the run of words that holds position i
RunEnd(ws, i) ==
    CHOOSE e \in i .. Len(ws) :
        /\ \A j \in i .. e : ws[j] # "."
        /\ e = Len(ws) \/ ws[e + 1] = "."

\* findall of \b(\w+)\s+kw\b from position i on: the word before kw
RECURSIVE WordBefore(_, _, _)
WordBefore(ws, i, kw) ==
    IF i + 1 > Len(ws) THEN <<>>
    ELSE IF ws[i] # "." /\ ws[i + 1] = kw
         THEN <<(<<ws[i]>>)>> \o WordBefore(ws, i + 2, kw)
         ELSE WordBefore(ws, i + 1, kw)

\* findall of \b(\w+)\s+incident from position i on: no \b closes the pattern
RECURSIVE WordBeforePrefix(_, _, _)
WordBeforePrefix(ws, i, kw) ==
    IF i + 1 > Len(ws) THEN <<>>
    ELSE IF ws[i] # "." /\ InStr(kw, ws[i + 1]) /\ ws[i + 1] # "."
         THEN <<(<<ws[i]>>)>> \o WordBeforePrefix(ws, i + 2, kw)
         ELSE WordBeforePrefix(ws, i + 1, kw)

\* findall of \b(\w+(?:\s+\w+)*)\s+kw\b from position i on: the greedy group
\* takes the run of words from its start up to the last kw of the run
RECURSIVE WordsBefore(_, _, _)
WordsBefore(ws, i, kw) ==
    IF i > Len(ws) THEN <<>>
    ELSE IF ws[i] = "." THEN WordsBefore(ws, i + 1, kw)
    ELSE LET e == RunEnd(ws, i)
             at == {j \in (i + 1) .. e : ws[j] = kw}
         IN  IF at = {} THEN WordsBefore(ws, e + 1, kw)
             ELSE LET j == CHOOSE x \in at : \A y \in at : y <= x
                  IN  <<SubSeq(ws, i, j - 1)>> \o WordsBefore(ws, j + 1, kw)

\* findall of \b<pre>\s+(\w+(?:\s+\w+)*)\b from position i on: the rest of
\* the run after the words pre
RECURSIVE WordsAfter(_, _, _)
WordsAfter(ws, i, pre) ==
    IF i + Len(pre) > Len(ws) THEN <<>>
    ELSE IF WordsAt(ws, i, pre) /\ ws[i] # "." /\ ws[i + Len(pre)] # "."
         THEN LET e == RunEnd(ws, i + Len(pre))
              IN  <<SubSeq(ws, i + Len(pre), e)>> \o WordsAfter(ws, e + 1, pre)
         ELSE WordsAfter(ws, i + 1, pre)

\* findall of \b<pre>\s+(\w+)\b from position i on: the word after pre
RECURSIVE WordAfter(_, _, _)
WordAfter(ws, i, pre) ==
    IF i + 1 > Len(ws) THEN <<>>
    ELSE IF ws[i] = pre /\ ws[i + 1] # "."
         THEN <<(<<ws[i + 1]>>)>> \o WordAfter(ws, i + 2, pre)
         ELSE WordAfter(ws, i + 1, pre)

\* location_matcher.py 76-79, 110-113: the matches that are gazetteer names
RECURSIVE InGazetteer(_)
InGazetteer(matches) ==
    IF matches = <<>> THEN <<>>
    ELSE IF InLocations(Head(matches))
         THEN <<NameOf(Head(matches))>> \o InGazetteer(Tail(matches))
         ELSE InGazetteer(Tail(matches))

\* location_matcher.py 68-70: every gazetteer name that stands in the text
RECURSIVE DirectMatches(_, _)
DirectMatches(ws, g) ==
    IF g > Len(locations) THEN <<>>
    ELSE IF \E i \in 1 .. Len(ws) : WordsAt(ws, i, locations[g].words)
         THEN <<locations[g].name>> \o DirectMatches(ws, g + 1)
         ELSE DirectMatches(ws, g + 1)

\* location_matcher.py 30-49, 73-79: the enhanced patterns, in dictionary order
EnhancedMatches(ws) ==
    InGazetteer(WordBefore(ws, 1, "borough") \o WordBefore(ws, 1, "council")
                \o WordBefore(ws, 1, "area") \o WordBefore(ws, 1, "district")
                \o WordsBefore(ws, 1, "station") \o WordsBefore(ws, 1, "street")
                \o WordsBefore(ws, 1, "road") \o WordsBefore(ws, 1, "lane")
                \o WordsAfter(ws, 1, <<"in">>) \o WordsAfter(ws, 1, <<"at">>)
                \o WordsAfter(ws, 1, <<"near">>))

\* location_matcher.py 93-115
FindContextLocations(ws) ==
    InGazetteer(WordsAfter(ws, 1, <<"stabbing", "in">>)
                \o WordsAfter(ws, 1, <<"incident", "in">>)
                \o WordsAfter(ws, 1, <<"attack", "in">>)
                \o WordsBefore(ws, 1, "police")
                \o WordsBefore(ws, 1, "station"))

\* location_matcher.py 85-89: duplicates removed, order kept
RECURSIVE Unique(_)
Unique(s) ==
    IF s = <<>> THEN <<>>
    ELSE LET rest == Unique(SubSeq(s, 1, Len(s) - 1))
         IN  IF \E i \in 1 .. Len(rest) : rest[i] = s[Len(s)] THEN rest
             ELSE Append(rest, s[Len(s)])

\* location_matcher.py 52-91; the text is never the empty string when
\* extract_location_from_entry passes title, description and content joined
\* by spaces
FindLocationsInText(ws) ==
    Unique(DirectMatches(ws, 1) \o EnhancedMatches(ws) \o FindContextLocations(ws))

\* location_matcher.py 204-225: each list of words starts with a word that
\* the other words of the list contain
AssignLondonArea(entry) ==
    LET combined == entry.title \o entry.description
    IN  IF InText("south", combined) THEN "southwark"
        ELSE IF InText("east", combined) THEN "newham"
        ELSE IF InText("north", combined) THEN "camden"
        ELSE IF InText("west", combined) THEN "chelsea"
        ELSE IF InText("central", combined) THEN "soho"
        ELSE None

\* location_matcher.py 170-202
GetLocationFromSource(entry) ==
    IF InStr("met_police", entry.source)
    THEN LET found == InGazetteer(WordAfter(entry.title, 1, "in")
                                  \o WordAfter(entry.title, 1, "at")
                                  \o WordBeforePrefix(entry.title, 1, "incident"))
         IN  IF found = <<>> THEN None ELSE found[1]
    ELSE IF InStr("bbc", entry.source)
         THEN IF InText("london", entry.title) THEN AssignLondonArea(entry) ELSE None
         ELSE None

\* location_matcher.py 155: the three texts joined by spaces
LocCombinedText(entry) == entry.title \o entry.description \o entry.content

\* mutant: the source heuristic is asked first
ExtractSourceFirst(entry) ==
    LET found == FindLocationsInText(LocCombinedText(entry))
    IN  IF GetLocationFromSource(entry) # None THEN GetLocationFromSource(entry)
        ELSE IF found = <<>> THEN None ELSE found[1]

\* location_matcher.py 140-168
ExtractLocationFromEntry(entry) ==
    LET found == FindLocationsInText(LocCombinedText(entry))
    IN  IF found = <<>> THEN GetLocationFromSource(entry) ELSE found[1]

\* mutant: a name without an entry gets the default coordinates
MatcherGetCoordinatesOrDefault(name) ==
    IF InTable(locations, NameLower(name))
    THEN [kind |-> "returned", lat |-> Lookup(locations, NameLower(name)).lat,
          lon |-> Lookup(locations, NameLower(name)).lon]
    ELSE [kind |-> "returned", lat |-> DEFAULT_LAT, lon |-> DEFAULT_LON]

\* location_matcher.py 117-138
MatcherGetCoordinates(name) ==
    IF InTable(locations, NameLower(name))
    THEN [kind |-> "returned", lat |-> Lookup(locations, NameLower(name)).lat,
          lon |-> Lookup(locations, NameLower(name)).lon]
    ELSE [kind |-> "ValueError", lat |-> None, lon |-> None]

\* geocoder.py 172-188
GeocoderGetCoordinates(name) ==
    IF InTable(locations, NameLower(name))
    THEN [kind |-> "returned", lat |-> Lookup(locations, NameLower(name)).lat,
          lon |-> Lookup(locations, NameLower(name)).lon]
    ELSE IF InTable(LondonBoroughs, NameLower(name))
         THEN [kind |-> "returned", lat |-> Lookup(LondonBoroughs, NameLower(name)).lat,
               lon |-> Lookup(LondonBoroughs, NameLower(name)).lon]
         ELSE [kind |-> "returned", lat |-> DEFAULT_LAT, lon |-> DEFAULT_LON]

\* location_matcher.py 240-262: one pass of the loop of process_entries
ProcessEntry(entry) ==
    LET location_name == ExtractLocationFromEntry(entry)
        coords == MatcherGetCoordinates(location_name)
        set == location_name # None /\ coords.kind = "returned"
    IN  [location |-> IF set THEN location_name ELSE None,
         lat |-> IF set THEN coords.lat ELSE None,
         lon |-> IF set THEN coords.lon ELSE None] @@ entry

\* mutant: an entry without a location is left out
ProcessedLocatedOnly(s) ==
    SelectSeq([i \in 1 .. Len(s) |-> ProcessEntry(s[i])],
              LAMBDA e : e.location # None)

\* location_matcher.py 237-266: every entry is appended, in order
Processed(s) == [i \in 1 .. Len(s) |-> ProcessEntry(s[i])]

(***************************************************************************)
(* AlertFormatter (processors/alert_formatter.py)                          *)
(*                                                                         *)
(* A datetime is its wall-clock reading (local, in hours) and its UTC      *)
(* offset in hours; a naive datetime (datetime.now()) has no offset.  The  *)
(* time string of an alert is the isoformat of the datetime: the reading   *)
(* followed by the suffix of the offset.                                   *)
(***************************************************************************)
MaxAlertsIn == 2

\* datetime.now(), a naive datetime
Now == [kind |-> "naive", local |-> 12, offset |-> 0]

\* the characters an f-string puts for the titles and locations of the
\* sample alerts: str(None) is 'None'
Chars(x) ==
    CASE x = None -> <<"N", "o", "n", "e">>
      [] x = "" -> <<>>
      [] x = "a" -> <<"a">>
      [] x = "a_b" -> <<"a", "_", "b">>
      [] x = "c" -> <<"c">>
      [] x = "b_c" -> <<"b", "_", "c">>

\* datetime.isoformat(): the reading, then "+HH:00" for an aware datetime
IsoFormat(dt) ==
    [kind |-> "str", local |-> dt.local,
     suffix |-> IF dt.kind = "naive" THEN ""
                ELSE IF dt.offset = 0 THEN "+00:00" ELSE "+01:00"]

\* the order of str on the suffixes: a proper prefix is smaller
SuffixRank(x) == CASE x = "" -> 0 [] x = "+00:00" -> 1 [] x = "+01:00" -> 2

\* a < b for two time strings (all readings have the same number of digits)
StrLess(a, b) ==
    \/ a.local < b.local
    \/ a.local = b.local /\ SuffixRank(a.suffix) < SuffixRank(b.suffix)

\* entry.get(key, default)
Get(entry, key, default) == IF key \in DOMAIN entry THEN entry[key] ELSE default

\* alert_formatter.py 18-22, 35-36
AlertType(entry) ==
    LET source_type == Get(entry, "type", "news")
    IN  CASE source_type = "police" -> "crime"
          [] source_type = "news" -> "news"
          [] source_type = "government" -> "emergency"
          [] OTHER -> "news"

\* alert_formatter.py 41: isoformat() of a published that is no datetime
\* raises AttributeError
FormatRaises(entry) == Get(entry, "published", Now).kind \notin {"naive", "aware"}

\* alert_formatter.py 24-52
FormatEntryToAlert(entry) ==
    [type |-> AlertType(entry),
     location |-> Get(entry, "location", None),
     time |-> IsoFormat(Get(entry, "published", Now)),
     lat |-> Get(entry, "lat", None),
     lon |-> Get(entry, "lon", None),
     title |-> Get(entry, "title", "No title"),
     source |-> Get(entry, "source", "unknown"),
     description |-> Get(entry, "description", "")]

\* alert_formatter.py 54-75: an entry whose formatting raises is skipped
RECURSIVE FormatAlerts(_)
FormatAlerts(s) ==
    IF s = <<>> THEN <<>>
    ELSE LET rest == FormatAlerts(SubSeq(s, 1, Len(s) - 1))
         IN  IF FormatRaises(s[Len(s)]) THEN rest
             ELSE Append(rest, FormatEntryToAlert(s[Len(s)]))

\* alert_formatter.py 92: f"{alert.get('title', '')}_{alert.get('location', '')}"
DedupeKey(alert) ==
    Chars(Get(alert, "title", "")) \o <<"_">> \o Chars(Get(alert, "location", ""))

\* alert_formatter.py 87-99: seen and unique_alerts after the loop over s
RECURSIVE Deduplicate(_)
Deduplicate(s) ==
    IF s = <<>> THEN [seen |-> {}, unique_alerts |-> <<>>]
    ELSE LET before == Deduplicate(SubSeq(s, 1, Len(s) - 1))
             key == DedupeKey(s[Len(s)])
         IN  IF key \notin before.seen
             THEN [seen |-> before.seen \cup {key},
                   unique_alerts |-> Append(before.unique_alerts, s[Len(s)])]
             ELSE before

\* alert_formatter.py 77-101
DeduplicateAlerts(alerts) == Deduplicate(alerts).unique_alerts

\* alert_formatter.py 114: comparing a key that is None raises TypeError
SortRaises(alerts) ==
    /\ Len(alerts) >= 2
    /\ \E i \in 1 .. Len(alerts) : Get(alerts[i], "time", "").kind = "None"

\* sorted(..., reverse=True) is stable: x goes behind every element that is
\* not smaller
RECURSIVE InsertByTime(_, _)
InsertByTime(x, s) ==
    IF s = <<>> THEN <<x>>
    ELSE IF StrLess(s[1].time, x.time) THEN <<x>> \o s
    ELSE <<s[1]>> \o InsertByTime(x, Tail(s))

\* alert_formatter.py 114
RECURSIVE Sorted(_)
Sorted(s) ==
    IF s = <<>> THEN <<>>
    ELSE InsertByTime(s[Len(s)], Sorted(SubSeq(s, 1, Len(s) - 1)))

\* alert_formatter.py 103-119
SortAlertsByTime(alerts) == IF SortRaises(alerts) THEN alerts ELSE Sorted(alerts)

\* the entries a test feeds to the matcher
LocEntries ==
    {[title |-> <<"police", "arrest", "suspect", "in", "oxford", "circus", "stabbing">>, description |-> <<>>, content |-> <<>>, source |-> "test"],
     [title |-> <<"protest", "planned", "in", "westminster", "tomorrow">>, description |-> <<>>, content |-> <<>>, source |-> "test"],
     [title |-> <<"new", "restaurant", "opens", "in", "manchester">>, description |-> <<>>, content |-> <<>>, source |-> "test"],
     [title |-> <<"fire", "alert">>, description |-> <<"camden", "station", "closed">>, content |-> <<>>, source |-> "govuk"],
     [title |-> <<"protest">>, description |-> <<>>, content |-> <<"march", "from", "soho", "to", "westminster">>, source |-> "evening_standard"],
     [title |-> <<"incident", "at", "romford">>, description |-> <<>>, content |-> <<>>, source |-> "met_police"],
     [title |-> <<"south", "london", "stabbing">>, description |-> <<>>, content |-> <<>>, source |-> "bbc"],
     [title |-> <<"feast", "day", "in", "london">>, description |-> <<>>, content |-> <<>>, source |-> "bbc"],
     [title |-> <<"london", "weather">>, description |-> <<>>, content |-> <<>>, source |-> "bbc"],
     [title |-> <<"north", "london", "protest">>, description |-> <<>>, content |-> <<"near", "soho">>, source |-> "bbc"],
     [title |-> <<"west", "london", "fire">>, description |-> <<>>, content |-> <<>>, source |-> "govuk"],
     [title |-> <<"stabbing", "in", "southwark", ".", "police", "appeal">>, description |-> <<>>, content |-> <<>>, source |-> "met_police"]}

RECURSIVE LocEntryLists(_)
LocEntryLists(n) ==
    IF n = 0 THEN {<<>>}
    ELSE LET shorter == LocEntryLists(n - 1)
         IN  shorter \cup {Append(x, e) : x \in {y \in shorter : Len(y) = n - 1},
                                          e \in LocEntries}

\* the names get_coordinates is asked for
LocNames ==
    {"oxford circus", "Oxford Circus", "SOHO", "newham", "chelsea", "hackney",
     "manchester", ""}

\* a call of get_coordinates, extract_location_from_entry or process_entries
LocationInit ==
    /\ unit = "location"
    /\ RetryIdle /\ LimiterIdle /\ CacheIdle /\ PersistIdle /\ ScraperIdle /\ RunIdle
    /\ FilterIdle /\ BasicIdle /\ FormatterIdle /\ ThrottleIdle
    /\ locations \in Gazetteers
    /\ lm_coords = NoCoordinates /\ lm_location = "pending" /\ processed_entries = <<>>
    /\ lm_alerts = <<>>
    /\ \/ /\ lm_pc = "coordinates"
          /\ lm_resolver \in {"LocationMatcher", "AdvancedGeocoder"}
          /\ lm_name \in LocNames
          /\ lm_entry = NoEntry /\ lm_entries = <<>>
       \/ /\ lm_pc = "extract"
          /\ lm_resolver = "LocationMatcher" /\ lm_name = ""
          /\ lm_entry \in LocEntries /\ lm_entries = <<>>
       \/ /\ lm_pc = "process"
          /\ lm_resolver = "LocationMatcher" /\ lm_name = ""
          /\ lm_entry = NoEntry /\ lm_entries \in LocEntryLists(MaxLocIn)

\* location_matcher.py 117-138
MatcherGetCoordinatesCalled ==
    /\ unit = "location" /\ lm_pc = "coordinates" /\ lm_resolver = "LocationMatcher"
    /\ lm_coords' = MatcherGetCoordinates(lm_name)
    /\ lm_pc' = "looked_up"
    /\ UNCHANGED <<unit, notLocation, locations, lm_resolver, lm_name, lm_entry,
                   lm_location, lm_entries, processed_entries, lm_alerts>>

\* geocoder.py 172-188
GeocoderGetCoordinatesCalled ==
    /\ unit = "location" /\ lm_pc = "coordinates" /\ lm_resolver = "AdvancedGeocoder"
    /\ lm_coords' = GeocoderGetCoordinates(lm_name)
    /\ lm_pc' = "looked_up"
    /\ UNCHANGED <<unit, notLocation, locations, lm_resolver, lm_name, lm_entry,
                   lm_location, lm_entries, processed_entries, lm_alerts>>

\* location_matcher.py 140-168
ExtractLocationCalled ==
    /\ unit = "location" /\ lm_pc = "extract"
    /\ lm_location' = ExtractLocationFromEntry(lm_entry)
    /\ lm_pc' = "extracted"
    /\ UNCHANGED <<unit, notLocation, locations, lm_resolver, lm_name, lm_coords,
                   lm_entry, lm_entries, processed_entries, lm_alerts>>

\* location_matcher.py 227-266
ProcessEntriesCalled ==
    /\ unit = "location" /\ lm_pc = "process"
    /\ processed_entries' = Processed(lm_entries)
    /\ lm_pc' = "processed"
    /\ UNCHANGED <<unit, notLocation, locations, lm_resolver, lm_name, lm_coords,
                   lm_entry, lm_location, lm_entries, lm_alerts>>

\* main.py 113-115: the located entries go to format_alerts
FormatLocatedEntries ==
    /\ unit = "location" /\ lm_pc = "processed"
    /\ lm_alerts' = FormatAlerts(processed_entries)
    /\ lm_pc' = "formatted"
    /\ UNCHANGED <<unit, notLocation, locations, lm_resolver, lm_name, lm_coords,
                   lm_entry, lm_location, lm_entries, processed_entries>>

LocationNext ==
    \/ MatcherGetCoordinatesCalled
    \/ GeocoderGetCoordinatesCalled
    \/ ExtractLocationCalled
    \/ ProcessEntriesCalled
    \/ FormatLocatedEntries

SpecLocation == LocationInit /\ [][LocationNext]_vars

\* C22: after process_entries every entry has location, lat and lon all
\* unset or all set; when set, (lat, lon) are the gazetteer coordinates of the
\* location; no entry carries the default coordinates.
C22_LocationAndCoordinatesTogether ==
    (unit = "location" /\ lm_pc = "processed") =>
        \A i \in 1 .. Len(processed_entries) :
            LET e == processed_entries[i]
            IN  /\ (e.location = None) <=> (e.lat = None)
                /\ (e.lat = None) <=> (e.lon = None)
                /\ e.location # None =>
                      /\ InTable(locations, e.location)
                      /\ e.lat = Lookup(locations, e.location).lat
                      /\ e.lon = Lookup(locations, e.location).lon
                /\ ~(e.lat = DEFAULT_LAT /\ e.lon = DEFAULT_LON)

\* one entry is located, and one whose heuristic name has no gazetteer entry
\* is left without location and coordinates
C22_Witness ==
    /\ unit = "location" /\ lm_pc = "processed" /\ Len(processed_entries) = 2
    /\ processed_entries[1].location = "oxford circus"
    /\ processed_entries[1].lat = "51.5154"
    /\ ExtractLocationFromEntry(lm_entries[2]) = "newham"
    /\ ~InTable(locations, "newham")
    /\ processed_entries[2].location = None
    /\ processed_entries[2].lat = None /\ processed_entries[2].lon = None

\* C23: get_coordinates(name) of a location resolver returns the gazetteer
\* coordinates when name has a gazetteer entry and fails for every name
\* without one; it never returns the default coordinates.
C23_MissingNameFails ==
    (unit = "location" /\ lm_pc = "looked_up") =>
        /\ InTable(locations, NameLower(lm_name)) =>
              /\ lm_coords.kind = "returned"
              /\ lm_coords.lat = Lookup(locations, NameLower(lm_name)).lat
              /\ lm_coords.lon = Lookup(locations, NameLower(lm_name)).lon
        /\ ~InTable(locations, NameLower(lm_name)) => lm_coords.kind = "ValueError"
        /\ ~(/\ lm_coords.kind = "returned"
             /\ lm_coords.lat = DEFAULT_LAT /\ lm_coords.lon = DEFAULT_LON)

\* the part of C23 that holds: the get_coordinates of LocationMatcher
C23_MatcherFails ==
    (unit = "location" /\ lm_pc = "looked_up" /\ lm_resolver = "LocationMatcher") =>
        IF InTable(locations, NameLower(lm_name))
        THEN /\ lm_coords.kind = "returned"
             /\ lm_coords.lat = Lookup(locations, NameLower(lm_name)).lat
             /\ lm_coords.lon = Lookup(locations, NameLower(lm_name)).lon
        ELSE lm_coords.kind = "ValueError"

\* the gazetteer names that stand in the text of the entry as whole words
NamesIn(entry) ==
    {locations[g].name : g \in {h \in 1 .. Len(locations) :
        \E i \in 1 .. Len(LocCombinedText(entry)) :
            WordsAt(LocCombinedText(entry), i, locations[h].words)}}

\* the matches of the structural patterns that are gazetteer names
StructuralMatches(entry) ==
    EnhancedMatches(LocCombinedText(entry)) \o FindContextLocations(LocCombinedText(entry))

\* what the chain of strategies gives for the entry
ChainResult(entry) ==
    IF NamesIn(entry) # {}
    THEN locations[CHOOSE g \in 1 .. Len(locations) :
                      /\ locations[g].name \in NamesIn(entry)
                      /\ \A h \in 1 .. (g - 1) : locations[h].name \notin NamesIn(entry)].name
    ELSE IF StructuralMatches(entry) # <<>> THEN StructuralMatches(entry)[1]
    ELSE GetLocationFromSource(entry)

\* C24: the location of an entry is the exact gazetteer match if there is
\* one, else a structural match that is in the gazetteer, else the result
\* of the source heuristic, else unset; an entry whose text holds a
\* gazetteer name resolves to such a name, and an entry that no strategy
\* matches gets no location and no coordinates.
C24_FirstStrategyWins ==
    /\ (unit = "location" /\ lm_pc = "extracted") =>
          /\ lm_location = ChainResult(lm_entry)
          /\ NamesIn(lm_entry) # {} => lm_location \in NamesIn(lm_entry)
          /\ (/\ NamesIn(lm_entry) = {} /\ StructuralMatches(lm_entry) = <<>>
              /\ GetLocationFromSource(lm_entry) = None) => lm_location = None
    /\ (unit = "location" /\ lm_pc = "processed") =>
          \A i \in 1 .. Len(lm_entries) :
              (/\ NamesIn(lm_entries[i]) = {} /\ StructuralMatches(lm_entries[i]) = <<>>
               /\ GetLocationFromSource(lm_entries[i]) = None) =>
                  /\ processed_entries[i].location = None
                  /\ processed_entries[i].lat = None
                  /\ processed_entries[i].lon = None

\* the text names soho while the source heuristic would say camden
C24_Witness ==
    /\ unit = "location" /\ lm_pc = "extracted"
    /\ lm_entry.source = "bbc"
    /\ GetLocationFromSource(lm_entry) = "camden"
    /\ NamesIn(lm_entry) = {"soho"}
    /\ lm_location = "soho"

\* C30: process_entries returns the entries of its input in the same
\* order, whether or not a location was found, and changes only location,
\* lat and lon; an entry without a location still becomes an alert.
C30_LocationStepKeepsEntries ==
    /\ (unit = "location" /\ lm_pc \in {"processed", "formatted"}) =>
          /\ Len(processed_entries) = Len(lm_entries)
          /\ \A i \in 1 .. Len(lm_entries) :
                /\ DOMAIN processed_entries[i]
                      = DOMAIN lm_entries[i] \cup {"location", "lat", "lon"}
                /\ \A k \in DOMAIN lm_entries[i] \ {"location", "lat", "lon"} :
                      processed_entries[i][k] = lm_entries[i][k]
    /\ (unit = "location" /\ lm_pc = "formatted") =>
          /\ Len(lm_alerts) = Len(lm_entries)
          /\ \A i \in 1 .. Len(lm_entries) :
                /\ lm_alerts[i].title = lm_entries[i].title
                /\ lm_alerts[i].source = lm_entries[i].source
                /\ lm_alerts[i].location = processed_entries[i].location

\* an entry without a location stands before a located one, and both are alerts
C30_Witness ==
    /\ unit = "location" /\ lm_pc = "formatted" /\ Len(lm_entries) = 2
    /\ ExtractLocationFromEntry(lm_entries[1]) = None
    /\ processed_entries[1].location = None
    /\ processed_entries[2].location = "westminster"
    /\ Len(lm_alerts) = 2
    /\ lm_alerts[1].title = lm_entries[1].title /\ lm_alerts[1].location = None
    /\ lm_alerts[2].location = "westminster"

(***************************************************************************)
(* Calls of deduplicate_alerts and sort_alerts_by_time                     *)
(***************************************************************************)
\* the time strings of the sample alerts, and a time that is not a string
SampleTimes ==
    {IsoFormat([kind |-> "aware", local |-> 11, offset |-> 0]),
     IsoFormat([kind |-> "aware", local |-> 12, offset |-> 0]),
     IsoFormat([kind |-> "aware", local |-> 12, offset |-> 1]),
     [kind |-> "None", local |-> 0, suffix |-> ""]}

\* the alerts a caller passes
SampleAlerts ==
    {[title |-> t, location |-> l, time |-> tm] :
        t \in {"a", "a_b"}, l \in {None, "", "c", "b_c"}, tm \in SampleTimes}

\* the alerts of the dedupe calls: the time plays no part there
DedupeAlerts == {a \in SampleAlerts : a.time.local = 11}

\* the alerts of the sort calls: title and location play no part there
SortAlerts == {a \in SampleAlerts : a.title = "a" /\ a.location \in {None, "c"}}

RECURSIVE ListsOfAlerts(_, _)
ListsOfAlerts(pool, n) ==
    IF n = 0 THEN {<<>>}
    ELSE LET shorter == ListsOfAlerts(pool, n - 1)
         IN  shorter \cup {Append(x, a) : x \in {y \in shorter : Len(y) = n - 1},
                                          a \in pool}

\* a call deduplicate_alerts(alerts) or sort_alerts_by_time(alerts)
FormatterInit ==
    /\ unit = "formatter"
    /\ RetryIdle /\ LimiterIdle /\ CacheIdle /\ PersistIdle /\ ScraperIdle /\ RunIdle
    /\ FilterIdle /\ BasicIdle /\ LocationIdle /\ ThrottleIdle
    /\ a_result = <<>>
    /\ \/ a_pc = "dedupe" /\ a_alerts \in ListsOfAlerts(DedupeAlerts, MaxAlertsIn)
       \/ a_pc = "sort" /\ a_alerts \in ListsOfAlerts(SortAlerts, MaxAlertsIn + 1)

\* alert_formatter.py 77-101
DeduplicateAlertsCalled ==
    /\ unit = "formatter" /\ a_pc = "dedupe"
    /\ a_result' = DeduplicateAlerts(a_alerts)
    /\ a_pc' = "deduplicated"
    /\ UNCHANGED <<unit, notFormatter, a_alerts>>

\* alert_formatter.py 103-119
SortAlertsByTimeCalled ==
    /\ unit = "formatter" /\ a_pc = "sort"
    /\ a_result' = SortAlertsByTime(a_alerts)
    /\ a_pc' = "sorted"
    /\ UNCHANGED <<unit, notFormatter, a_alerts>>

FormatterNext == DeduplicateAlertsCalled \/ SortAlertsByTimeCalled

SpecFormatter == FormatterInit /\ [][FormatterNext]_vars

\* the key of the claim: title + "_" + (location or "")
KeyOrEmpty(alert) ==
    Chars(alert.title) \o <<"_">>
        \o Chars(IF alert.location = None THEN "" ELSE alert.location)

\* the first alert of each distinct key of s, in the order of s
FirstOfEachKey(s) ==
    LET first == {i \in 1 .. Len(s) : \A j \in 1 .. (i - 1) : KeyOrEmpty(s[j]) # KeyOrEmpty(s[i])}
        Pick[n \in 0 .. Len(s)] ==
            IF n = 0 THEN <<>>
            ELSE IF n \in first THEN Append(Pick[n - 1], s[n]) ELSE Pick[n - 1]
    IN  Pick[Len(s)]

\* C25: deduplicate_alerts returns exactly the first alert of each distinct
\* key title + "_" + (location or ""), in the original order, and the output
\* has no two alerts with the same title and location.
C25_FirstOfEachKey ==
    (unit = "formatter" /\ a_pc = "deduplicated") =>
        /\ a_result = FirstOfEachKey(a_alerts)
        /\ \A i, j \in 1 .. Len(a_result) :
              (/\ a_result[i].title = a_result[j].title
               /\ a_result[i].location = a_result[j].location) => i = j

\* the parts of C25 that hold: alerts of one title and one location collapse
\* to the first, and the order of the survivors is that of the input
C25_SameTitleAndLocationCollapse ==
    (unit = "formatter" /\ a_pc = "deduplicated") =>
        /\ \A i, j \in 1 .. Len(a_result) :
              (/\ a_result[i].title = a_result[j].title
               /\ a_result[i].location = a_result[j].location) => i = j
        /\ \E f \in [1 .. Len(a_result) -> 1 .. Len(a_alerts)] :
              /\ \A i \in 1 .. Len(a_result) : a_result[i] = a_alerts[f[i]]
              /\ \A i, j \in 1 .. Len(a_result) : i < j => f[i] < f[j]
              /\ \A i \in 1 .. Len(a_result) : \A k \in 1 .. (f[i] - 1) :
                    DedupeKey(a_alerts[k]) # DedupeKey(a_alerts[f[i]])

\* the instant of a time string, in hours UTC
Instant(time) == time.local - (IF time.suffix = "+01:00" THEN 1 ELSE 0)

\* how often the alert x stands in the list s
CountIn(s, x) == Cardinality({i \in 1 .. Len(s) : s[i] = x})

\* C26: sort_alerts_by_time returns a permutation of its input ordered by
\* the time string non-increasing, which is newest first; if sorting fails
\* it returns the input unchanged.
C26_NewestFirst ==
    (unit = "formatter" /\ a_pc = "sorted") =>
        IF SortRaises(a_alerts) THEN a_result = a_alerts
        ELSE /\ \A x \in SortAlerts : CountIn(a_result, x) = CountIn(a_alerts, x)
             /\ \A i \in 1 .. (Len(a_result) - 1) :
                   /\ ~StrLess(a_result[i].time, a_result[i + 1].time)
                   /\ Instant(a_result[i].time) >= Instant(a_result[i + 1].time)

\* the part of C26 that holds: a permutation in non-increasing order of the
\* time strings, or the input when the comparison raises
C26_SortedByTimeString ==
    (unit = "formatter" /\ a_pc = "sorted") =>
        IF SortRaises(a_alerts) THEN a_result = a_alerts
        ELSE /\ \A x \in SortAlerts : CountIn(a_result, x) = CountIn(a_alerts, x)
             /\ \A i \in 1 .. (Len(a_result) - 1) :
                   ~StrLess(a_result[i].time, a_result[i + 1].time)

\* C29: deduplicate_alerts never merges distinct alerts: an alert of every
\* title and location of the input is in the output.
C29_DistinctAlertsKept ==
    (unit = "formatter" /\ a_pc = "deduplicated") =>
        \A i \in 1 .. Len(a_alerts) : \E k \in 1 .. Len(a_result) :
            /\ a_result[k].title = a_alerts[i].title
            /\ a_result[k].location = a_alerts[i].location

(***************************************************************************)
(* The limiter a feed's request goes through (rate_limiter.py 114-135,     *)
(* base_feed.py 39, 57).  Every feed object owns a FeedRateLimiter; the    *)
(* requests counted here fall into one window of 60 seconds.               *)
(***************************************************************************)
MaxFeedRequests == 7

\* rate_limiter.py 122-125: max_requests of each limiter (time_window is 60)
LimiterMaxRequests(l) ==
    CASE l = "bbc" -> 5
      [] l = "met_police" -> 10
      [] l = "govuk" -> 8
      [] l = "default" -> 6

\* str.lower() of the names of the feeds
FeedNameLower(name) ==
    CASE name = "BBC News" -> "bbc news"
      [] name = "Met Police" -> "met police"
      [] name = "GOV.UK" -> "gov.uk"
      [] name = "Evening Standard" -> "evening standard"

\* rate_limiter.py 128-130: self.limiters.get(source.lower(), self.limiters['default'])
GetLimiter(source) ==
    IF source \in LimiterKeys THEN source ELSE "default"

\* the feed objects just built, no request made yet
ThrottleInit ==
    /\ unit = "throttle"
    /\ RetryIdle /\ LimiterIdle /\ CacheIdle /\ PersistIdle /\ ScraperIdle /\ RunIdle
    /\ FilterIdle /\ BasicIdle /\ LocationIdle /\ FormatterIdle
    /\ th_requests = [k \in FeedIds |-> [l \in LimiterKeys |-> 0]]
    /\ th_last = NoRequest

\* base_feed.py 57 and rate_limiter.py 132-135, 45-52: fetch_feed of a feed
\* that does not override it waits on the limiter of self.name.lower(), which
\* sleeps when the limiter is full, and records the request
BaseFeedWaits(k) ==
    /\ unit = "throttle"
    /\ Feeds[k] # "Met Police"
    /\ LET l == GetLimiter(FeedNameLower(Feeds[k]))
       IN  /\ th_requests[k][l] < MaxFeedRequests
           /\ th_requests' = [th_requests EXCEPT ![k][l] = @ + 1]
           /\ th_last' = [feed |-> Feeds[k], limiter |-> l,
                          slept |-> th_requests[k][l] >= LimiterMaxRequests(l)]
    /\ UNCHANGED <<unit, notThrottle>>

\* met_police_feed.py 23-40: the fetch_feed of MetPoliceFeed calls no limiter
MetPoliceRequests(k) ==
    /\ unit = "throttle"
    /\ Feeds[k] = "Met Police"
    /\ th_last' = [feed |-> Feeds[k], limiter |-> "none", slept |-> FALSE]
    /\ UNCHANGED <<unit, notThrottle, th_requests>>

ThrottleNext == \E k \in FeedIds : BaseFeedWaits(k) \/ MetPoliceRequests(k)

SpecThrottle == ThrottleInit /\ [][ThrottleNext]_vars

\* C28: the requests of the BBC feed go through the limiter 'bbc' and those
\* of the GOV.UK feed through 'govuk'; 'default' serves only the feeds that
\* have no limiter of their own.
C28_OwnLimiterPerFeed ==
    unit = "throttle" =>
        /\ th_last.feed = "BBC News" => th_last.limiter = "bbc"
        /\ th_last.feed = "GOV.UK" => th_last.limiter = "govuk"
        /\ th_last.limiter = "default" => th_last.feed = "Evening Standard"

\* what holds instead: every feed that waits at all waits on 'default'
C28_EveryFeedOnDefault ==
    (unit = "throttle" /\ th_last.limiter # "none") => th_last.limiter = "default"

(***************************************************************************)
(* The whole model: one of the components runs                             *)
(***************************************************************************)
Init ==
    \/ RetryInit
    \/ LimiterInit
    \/ CacheInit
    \/ PersistInit
    \/ ScraperInit
    \/ RunInit
    \/ ClassifierInit
    \/ BasicInit
    \/ LocationInit
    \/ FormatterInit
    \/ ThrottleInit

Next ==
    \/ RetryNext
    \/ LimiterNext
    \/ CacheNext
    \/ PersistNext
    \/ ScraperNext
    \/ RunNext
    \/ ClassifierNext
    \/ BasicNext
    \/ LocationNext
    \/ FormatterNext
    \/ ThrottleNext

Spec == Init /\ [][Next]_vars

====
